---- MODULE Spec2Model ----
(***************************************************************************)
(* Model of kiteggrad/tcontainer: Pool.Run with ApplyRunOptions and the    *)
(* container reuse / repair / recreate protocol of run.go, against a model *)
(* of the docker daemon reached through dockertest; Pool.Prune; the        *)
(* internal retry.Retry; defaultContainerConfigCheck called on its own.    *)
(***************************************************************************)
EXTENDS Integers, Sequences, FiniteSets, TLC

VARIABLES
    repository,   \* repository argument of Pool.Run
    customOpts,   \* customOpts argument of Pool.Run, the options not yet applied
    options,      \* RunOptions built by ApplyRunOptions
    daemon,       \* the daemon's container registered under options.Name
    nextID,       \* next identifier the daemon hands out
    ctxDone,      \* the caller's context is cancelled
    pc,           \* position of Pool.Run
    path,         \* branch taken by initContainer
    container,    \* *dockertest.Resource held by Run / reuseContainer
    err,          \* error held by reuseOrRecreateContainer (the reuse failure)
    reuseTries,   \* attempts made so far by backoff.Retry in reuseContainer
    probeTries,   \* attempts made so far by backoff.Retry in run
    daemonSteps,  \* state changes the daemon made on its own
    calls,        \* daemon / callback calls issued by Run, in order
    result,       \* container returned by Run
    runErr,       \* error returned by Run
    docker,       \* containers and images of the daemon swept by Pool.Prune
    prune,        \* the running call of Pool.Prune
    retry,        \* the running call of retry.Retry
    configCheck,  \* the running call of defaultContainerConfigCheck
    apply,        \* the running call of applyTestContainerOptions
    stateCheck    \* the running call of checkContainerState / repairForReuse

\* variables of Pool.Run
runVars == <<repository, customOpts, options, daemon, nextID, ctxDone, pc, path,
             container, err, reuseTries, probeTries, daemonSteps, calls, result, runErr>>

\* variables of the other entry points, left alone by Pool.Run
otherVars == <<docker, prune, retry, configCheck, apply, stateCheck>>

vars == <<runVars, otherVars>>

-----------------------------------------------------------------------------
(* Bounds *)

MaxReuseTries == 2
MaxProbeTries == 2
MaxDaemonSteps == 2
MaxOpts == 2
MaxCreated == 1
MaxRetryAttempts == 4
MaxTestOpts == 3
MaxChecks == 2

-----------------------------------------------------------------------------
(* Errors: the set of sentinels / leaf errors an error matches under       *)
(* errors.Is, the chain of wrapping messages, and the backoff.Permanent    *)
(* mark.                                                                   *)

ErrContainerAlreadyExists == "ErrContainerAlreadyExists"
ErrUnreusableState == "ErrUnreusableState"
ErrReuseContainerConflict == "ErrReuseContainerConflict"
ErrRetryTimeout == "ErrRetryTimeout"
ErrInvalidOptions == "ErrInvalidOptions"
ErrOptionConflict == "ErrOptionConflict"

NoErr == [is |-> {}, msg |-> <<>>, permanent |-> FALSE]

NewErr(leaf) == [is |-> {leaf}, msg |-> <<leaf>>, permanent |-> FALSE]

IsNil(e) == e.is = {}

ErrorsIs(e, target) == target \in e.is

\* fmt.Errorf("<prefix>: %w", e)
Wrap(prefix, e) == [is |-> e.is, msg |-> <<prefix>> \o e.msg, permanent |-> e.permanent]

\* fmt.Errorf("%w: <prefix>: %w", sentinel, e)
WrapWith(sentinel, prefix, e) ==
    [is |-> {sentinel} \cup e.is, msg |-> <<sentinel, prefix>> \o e.msg, permanent |-> e.permanent]

\* errors.Join(a, b)
Join(a, b) == [is |-> a.is \cup b.is, msg |-> a.msg \o b.msg, permanent |-> a.permanent \/ b.permanent]

\* backoff.Permanent(e)
Permanent(e) == [is |-> e.is, msg |-> e.msg, permanent |-> TRUE]

\* errors.As(err, *backoff.PermanentError)
IsPermanent(e) == e.permanent

-----------------------------------------------------------------------------
(* docker.State snapshots *)

St(running, paused, restarting, oom, dead, removal, status) ==
    [Running |-> running, Paused |-> paused, Restarting |-> restarting,
     OOMKilled |-> oom, Dead |-> dead, RemovalInProgress |-> removal,
     Status |-> status]

StRunning == St(TRUE, FALSE, FALSE, FALSE, FALSE, FALSE, "running")
StPaused == St(TRUE, TRUE, FALSE, FALSE, FALSE, FALSE, "paused")
StRestarting == St(TRUE, FALSE, TRUE, FALSE, FALSE, FALSE, "restarting")
StExited == St(FALSE, FALSE, FALSE, FALSE, FALSE, FALSE, "exited")
StOOMExited == St(FALSE, FALSE, FALSE, TRUE, FALSE, FALSE, "exited")
StDead == St(FALSE, FALSE, FALSE, FALSE, TRUE, FALSE, "dead")
StRemoving == St(FALSE, FALSE, FALSE, FALSE, FALSE, TRUE, "removing")
StCreated == St(FALSE, FALSE, FALSE, FALSE, FALSE, FALSE, "created")
StNone == St(FALSE, FALSE, FALSE, FALSE, FALSE, FALSE, "")

States == {StRunning, StPaused, StRestarting, StExited, StOOMExited,
           StDead, StRemoving, StCreated}

-----------------------------------------------------------------------------
(* Containers and requests *)

Binding(ip, port) == [HostIP |-> ip, HostPort |-> port]

NoBindings == <<>>

\* *docker.Container as returned by an inspect: identifier, state, config
Container(id, st, image, exposed, bindings) ==
    [ID |-> id, State |-> st, Image |-> image, ExposedPorts |-> exposed,
     PortBindings |-> bindings]

NilContainer == Container(0, StNone, "", {}, NoBindings)

\* the container that was created under options.Name by an earlier Run
ExistingID == 1
ExistingImage == "busybox:latest"
ExistingExposedPorts == {"80"}
ExistingPortBindings == ("80" :> <<Binding("", "8080"), Binding("", "8081")>>)

\* request configurations tried against the existing container
RequestConfigs ==
    { [Tag |-> "latest", ExposedPorts |-> <<"80">>, PortBindings |-> NoBindings],
      [Tag |-> "latest", ExposedPorts |-> <<"80">>,
       PortBindings |-> ("80" :> <<Binding("", "8081")>>)],
      [Tag |-> "1.36", ExposedPorts |-> <<"80">>, PortBindings |-> NoBindings],
      [Tag |-> "latest", ExposedPorts |-> <<"80", "9999">>, PortBindings |-> NoBindings],
      [Tag |-> "latest", ExposedPorts |-> <<"80">>,
       PortBindings |-> ("80" :> <<Binding("", "9090")>>)] }

DefaultLabelKeyValue == "tcontainer"

defaultImageTag == "latest"

defaultContainerExpiry == 60

\* RunOptions{}: the zero value
ZeroRunOptions ==
    [Repository |-> "", Tag |-> "", Env |-> <<>>, Cmd |-> <<>>,
     ExposedPorts |-> <<>>, PortBindings |-> NoBindings,
     Labels |-> {},
     Reuse |-> [Reuse |-> FALSE, RecreateOnErr |-> FALSE, ConfigChecks |-> <<>>],
     RemoveOnExists |-> FALSE,
     ContainerExpiry |-> 0,
     Retry |-> [Operation |-> FALSE]]

\* RunOptions.getDefault
getDefault(repo) ==
    [Repository |-> repo, Tag |-> defaultImageTag, Env |-> <<>>, Cmd |-> <<>>,
     ExposedPorts |-> <<>>, PortBindings |-> NoBindings,
     Labels |-> {DefaultLabelKeyValue},
     Reuse |-> [Reuse |-> FALSE, RecreateOnErr |-> FALSE,
                ConfigChecks |-> <<"defaultContainerConfigCheck">>],
     RemoveOnExists |-> FALSE,
     ContainerExpiry |-> defaultContainerExpiry,
     Retry |-> [Operation |-> FALSE]]

\* a caller's RunOption that sets the image tag, the ports, RecreateOnErr, the
\* expiry and the readiness probe
ConfigOption(cfg, recreateOnErr, expiry, hasOperation) ==
    [fn |-> "config", cfg |-> cfg, RecreateOnErr |-> recreateOnErr,
     ContainerExpiry |-> expiry, Operation |-> hasOperation]

\* the caller's RunOptions that set or clear the two collision policies, and
\* one that returns an error
PolicyOptions ==
    { [fn |-> "Reuse.Reuse = true"], [fn |-> "RemoveOnExists = true"],
      [fn |-> "RemoveOnExists = false"], [fn |-> "return error"] }

\* the caller's RunOptions that change Reuse.ConfigChecks
ConfigCheckOptions ==
    { [fn |-> "ConfigChecks = append(ConfigChecks, failing check)"],
      [fn |-> "ConfigChecks = {failing check}"],
      [fn |-> "ConfigChecks = {passing check}"],
      [fn |-> "ConfigChecks = append(ConfigChecks, passing check)"] }

\* the call customOpt(&options) of one RunOption
customOpt(opt, o) ==
    CASE opt.fn = "config" ->
           [options |-> [o EXCEPT !.Tag = opt.cfg.Tag,
                                  !.ExposedPorts = opt.cfg.ExposedPorts,
                                  !.PortBindings = opt.cfg.PortBindings,
                                  !.Reuse.RecreateOnErr = opt.RecreateOnErr,
                                  !.ContainerExpiry = opt.ContainerExpiry,
                                  !.Retry.Operation = opt.Operation],
            err |-> NoErr]
      [] opt.fn = "Reuse.Reuse = true" ->
           [options |-> [o EXCEPT !.Reuse.Reuse = TRUE], err |-> NoErr]
      [] opt.fn = "RemoveOnExists = true" ->
           [options |-> [o EXCEPT !.RemoveOnExists = TRUE], err |-> NoErr]
      [] opt.fn = "RemoveOnExists = false" ->
           [options |-> [o EXCEPT !.RemoveOnExists = FALSE], err |-> NoErr]
      [] opt.fn = "ConfigChecks = append(ConfigChecks, failing check)" ->
           [options |-> [o EXCEPT !.Reuse.ConfigChecks = Append(@, "failing check")],
            err |-> NoErr]
      [] opt.fn = "ConfigChecks = append(ConfigChecks, passing check)" ->
           [options |-> [o EXCEPT !.Reuse.ConfigChecks = Append(@, "passing check")],
            err |-> NoErr]
      [] opt.fn = "ConfigChecks = {failing check}" ->
           [options |-> [o EXCEPT !.Reuse.ConfigChecks = <<"failing check">>],
            err |-> NoErr]
      [] opt.fn = "ConfigChecks = {passing check}" ->
           [options |-> [o EXCEPT !.Reuse.ConfigChecks = <<"passing check">>],
            err |-> NoErr]
      [] OTHER -> [options |-> o, err |-> NewErr("option error")]

SeqRange(s) == { s[i] : i \in 1..Len(s) }

-----------------------------------------------------------------------------
(* Pure functions of run.go / options.go *)

\* checkPortBindings comparing the host ports only
checkPortBindings_HostPortOnly(expected, actual) ==
    IF \E port \in DOMAIN expected : port \notin DOMAIN actual
    THEN NewErr(ErrReuseContainerConflict)
    ELSE IF \E port \in DOMAIN expected :
                \E i \in 1..Len(expected[port]) :
                    expected[port][i].HostPort \notin
                        { actual[port][j].HostPort : j \in 1..Len(actual[port]) }
         THEN NewErr(ErrReuseContainerConflict)
         ELSE NoErr

checkPortBindings(expected, actual) ==
    IF \E port \in DOMAIN expected : port \notin DOMAIN actual
    THEN NewErr(ErrReuseContainerConflict)
    ELSE IF \E port \in DOMAIN expected :
                \E i \in 1..Len(expected[port]) :
                    expected[port][i] \notin SeqRange(actual[port])
         THEN NewErr(ErrReuseContainerConflict)
         ELSE NoErr

\* a default check comparing the port bindings before the image and the
\* exposed ports
defaultContainerConfigCheck_BindingsFirst(c, expectedOptions) ==
    LET expectImage == expectedOptions.Repository \o ":" \o expectedOptions.Tag
        pbErr == checkPortBindings(expectedOptions.PortBindings, c.PortBindings)
    IN  IF ~IsNil(pbErr)
        THEN Wrap("failed to checkPortBindings", pbErr)
        ELSE IF c.Image # expectImage
             THEN NewErr("other image")
             ELSE IF \E i \in 1..Len(expectedOptions.ExposedPorts) :
                         expectedOptions.ExposedPorts[i] \notin c.ExposedPorts
                  THEN NewErr("old container doesn't have exposed port")
                  ELSE NoErr

defaultContainerConfigCheck(c, expectedOptions) ==
    LET expectImage == expectedOptions.Repository \o ":" \o expectedOptions.Tag
        pbErr == checkPortBindings(expectedOptions.PortBindings, c.PortBindings)
    IN  IF c.Image # expectImage
        THEN NewErr("other image")
        ELSE IF \E i \in 1..Len(expectedOptions.ExposedPorts) :
                    expectedOptions.ExposedPorts[i] \notin c.ExposedPorts
             THEN NewErr("old container doesn't have exposed port")
             ELSE IF ~IsNil(pbErr)
                  THEN Wrap("failed to checkPortBindings", pbErr)
                  ELSE NoErr

\* call of one ContainerConfigCheck of options.Reuse.ConfigChecks
ContainerConfigCheck(check, c, expectedOptions) ==
    IF check = "defaultContainerConfigCheck"
    THEN defaultContainerConfigCheck(c, expectedOptions)
    ELSE IF check = "failing check"
    THEN NewErr("caller check error")
    ELSE NoErr

\* checkContainerState without its Running case
checkContainerState_NoRunningCase(c) ==
    IF c.State.Paused THEN NewErr("still paused")
    ELSE IF c.State.Status = "exited" THEN NewErr("still exited")
    ELSE IF c.State.Restarting THEN NewErr("still restarting")
    ELSE IF c.State.OOMKilled \/ c.State.Dead \/ c.State.RemovalInProgress
         THEN NewErr(ErrUnreusableState)
         ELSE NewErr("unexpected Container.State")

checkContainerState(c) ==
    IF c.State.Paused THEN NewErr("still paused")
    ELSE IF c.State.Status = "exited" THEN NewErr("still exited")
    ELSE IF c.State.Restarting THEN NewErr("still restarting")
    ELSE IF c.State.Running THEN NoErr
    ELSE IF c.State.OOMKilled \/ c.State.Dead \/ c.State.RemovalInProgress
         THEN NewErr(ErrUnreusableState)
         ELSE NewErr("unexpected Container.State")

\* repairForReuse starting a paused container instead of unpausing it
repairForReuse_PausedStarted(c) ==
    IF IsNil(checkContainerState(c)) THEN "nothing"
    ELSE IF c.State.Restarting THEN "nothing"
    ELSE IF c.State.Paused THEN "StartContainer"
    ELSE IF c.State.Status = "exited" THEN "StartContainer"
    ELSE IF c.State.OOMKilled \/ c.State.Dead \/ c.State.RemovalInProgress
         THEN "unreusable"
         ELSE "unexpected"

\* repairForReuse only waiting for an exited container
repairForReuse_ExitedNotStarted(c) ==
    IF IsNil(checkContainerState(c)) THEN "nothing"
    ELSE IF c.State.Restarting THEN "nothing"
    ELSE IF c.State.Paused THEN "UnpauseContainer"
    ELSE IF c.State.Status = "exited" THEN "nothing"
    ELSE IF c.State.OOMKilled \/ c.State.Dead \/ c.State.RemovalInProgress
         THEN "unreusable"
         ELSE "unexpected"

\* the branch repairForReuse takes: the daemon call it issues, if any
repairForReuse(c) ==
    IF IsNil(checkContainerState(c)) THEN "nothing"
    ELSE IF c.State.Restarting THEN "nothing"
    ELSE IF c.State.Paused THEN "UnpauseContainer"
    ELSE IF c.State.Status = "exited" THEN "StartContainer"
    ELSE IF c.State.OOMKilled \/ c.State.Dead \/ c.State.RemovalInProgress
         THEN "unreusable"
         ELSE "unexpected"

\* the range loop returning the conflict without backoff.Permanent
RECURSIVE configChecksFrom_NotPermanent(_, _, _)
configChecksFrom_NotPermanent(i, c, opts) ==
    IF i > Len(opts.Reuse.ConfigChecks) THEN NoErr
    ELSE LET e == ContainerConfigCheck(opts.Reuse.ConfigChecks[i], c, opts)
         IN  IF ~IsNil(e)
             THEN WrapWith(ErrReuseContainerConflict, "failed to checkContainerConfig", e)
             ELSE configChecksFrom_NotPermanent(i + 1, c, opts)

\* the range loop over options.Reuse.ConfigChecks inside try()
RECURSIVE configChecksFrom(_, _, _)
configChecksFrom(i, c, opts) ==
    IF i > Len(opts.Reuse.ConfigChecks) THEN NoErr
    ELSE LET e == ContainerConfigCheck(opts.Reuse.ConfigChecks[i], c, opts)
         IN  IF ~IsNil(e)
             THEN Permanent(WrapWith(ErrReuseContainerConflict, "failed to checkContainerConfig", e))
             ELSE configChecksFrom(i + 1, c, opts)

\* the predicates the range loop over options.Reuse.ConfigChecks calls
RECURSIVE checksCalledFrom(_, _, _)
checksCalledFrom(i, c, opts) ==
    IF i > Len(opts.Reuse.ConfigChecks) THEN <<>>
    ELSE LET e == ContainerConfigCheck(opts.Reuse.ConfigChecks[i], c, opts)
         IN  <<opts.Reuse.ConfigChecks[i]>>
             \o (IF ~IsNil(e) THEN <<>> ELSE checksCalledFrom(i + 1, c, opts))

\* Pool.ContainerByName on the daemon
ContainerByName(d) ==
    IF d.exists
    THEN [ok |-> TRUE, container |-> Container(d.ID, d.State, d.Image, d.ExposedPorts, d.PortBindings)]
    ELSE [ok |-> FALSE, container |-> NilContainer]

\* try returning an unusable state like any other state error
try_UnusableRetried(d, opts) ==
    LET found == ContainerByName(d)
        c == found.container
        stateErr == Wrap("failed to checkContainerState", checkContainerState(c))
        cfgErr == configChecksFrom(1, c, opts)
        called == checksCalledFrom(1, c, opts)
    IN  IF ~found.ok
        THEN [container |-> NilContainer, checks |-> <<>>,
              err |-> Permanent(NewErr("failed to p.ContainerByName"))]
        ELSE IF ~IsNil(stateErr)
             THEN [container |-> c, checks |-> <<>>, err |-> stateErr]
             ELSE IF ~IsNil(cfgErr)
                  THEN [container |-> NilContainer, checks |-> called, err |-> cfgErr]
                  ELSE [container |-> c, checks |-> called, err |-> NoErr]

\* the closure try of reuseContainer, evaluated against the daemon
try(d, opts) ==
    LET found == ContainerByName(d)
        c == found.container
        stateErr == Wrap("failed to checkContainerState", checkContainerState(c))
        cfgErr == configChecksFrom(1, c, opts)
        called == checksCalledFrom(1, c, opts)
    IN  IF ~found.ok
        THEN [container |-> NilContainer, checks |-> <<>>,
              err |-> Permanent(NewErr("failed to p.ContainerByName"))]
        ELSE IF ~IsNil(stateErr)
             THEN IF ErrorsIs(stateErr, ErrUnreusableState)
                  THEN [container |-> NilContainer, checks |-> <<>>, err |-> Permanent(stateErr)]
                  ELSE [container |-> c, checks |-> <<>>, err |-> stateErr]
             ELSE IF ~IsNil(cfgErr)
                  THEN [container |-> NilContainer, checks |-> called, err |-> cfgErr]
                  ELSE [container |-> c, checks |-> called, err |-> NoErr]

-----------------------------------------------------------------------------
(* State after construction: a request, and the daemon with or without a   *)
(* container already registered under the requested name.                  *)

NoDaemonContainer ==
    [exists |-> FALSE, ID |-> 0, State |-> StNone, Image |-> "",
     ExposedPorts |-> {}, PortBindings |-> NoBindings, Labels |-> {}]

\* a container an earlier Run of this library left under the requested name
ExistingContainer(st) ==
    [exists |-> TRUE, ID |-> ExistingID, State |-> st, Image |-> ExistingImage,
     ExposedPorts |-> ExistingExposedPorts, PortBindings |-> ExistingPortBindings,
     Labels |-> {DefaultLabelKeyValue}]

\* a container another program started under the requested name
ForeignContainer(st) == [ExistingContainer(st) EXCEPT !.Labels = {}]

\* one entry of the call history: the call, the container it names, the
\* state a lookup saw, and what the call returned
Call(op, id, st, ret) == [op |-> op, id |-> id, state |-> st, ret |-> ret]

\* the entry of a call of ContainerByName inside try(): the container and the
\* state it returned, and the ConfigChecks predicates try() called on it
Lookup(id, st, ret, checks) ==
    [op |-> "ContainerByName", id |-> id, state |-> st, ret |-> ret, checks |-> checks]

\* what an entry point holds while it is not called
NoCall == [pc |-> "none"]

\* the sequences over S of at most n elements
SeqsUpTo(S, n) == UNION { [1..k -> S] : k \in 0..n }

\* a call Pool.Run(ctx, repository, customOpts...) about to start, against a
\* daemon that holds one of daemons under the requested name; customOpts is
\* one of configOptions followed by one of optionSeqs
RunInitWith(repositories, configOptions, daemons, optionSeqs) ==
    /\ repository \in repositories
    /\ \E first \in configOptions, more \in optionSeqs : customOpts = <<first>> \o more
    /\ options = ZeroRunOptions
    /\ daemon \in daemons
    /\ nextID = ExistingID + 1
    /\ ctxDone = FALSE
    /\ pc = "Run"
    /\ path = "none"
    /\ container = NilContainer
    /\ err = NoErr
    /\ reuseTries = 0
    /\ probeTries = 0
    /\ daemonSteps = 0
    /\ calls = <<>>
    /\ result = NilContainer
    /\ runErr = NoErr
    /\ docker = {}
    /\ prune = NoCall
    /\ retry = NoCall
    /\ configCheck = NoCall
    /\ apply = NoCall
    /\ stateCheck = NoCall

\* the same with either repository and every ConfigOption over RequestConfigs
RunInit(daemons, optionSeqs) ==
    RunInitWith({"busybox", ""},
                { ConfigOption(cfg, recreateOnErr, expiry, hasOperation) :
                    cfg \in RequestConfigs, recreateOnErr \in BOOLEAN,
                    expiry \in {0, defaultContainerExpiry}, hasOperation \in BOOLEAN },
                daemons, optionSeqs)

Init ==
    RunInit({NoDaemonContainer} \cup { ExistingContainer(st) : st \in States },
            SeqsUpTo(PolicyOptions, MaxOpts))

-----------------------------------------------------------------------------
(* Returns of Pool.Run *)

\* Run returns (nil, e)
ReturnErr(e) ==
    /\ pc' = "done"
    /\ result' = NilContainer
    /\ runErr' = e

\* Run returns (c, nil)
ReturnOk(c) ==
    /\ pc' = "done"
    /\ result' = c
    /\ runErr' = NoErr

\* validate without the check of the repository
validate_NoRepositoryCheck(o) ==
    IF o.RemoveOnExists /\ o.Reuse.Reuse THEN NewErr(ErrOptionConflict)
    ELSE NoErr

\* RunOptions.validate
validate(o) ==
    IF o.Repository = "" THEN NewErr(ErrInvalidOptions)
    ELSE IF o.RemoveOnExists /\ o.Reuse.Reuse THEN NewErr(ErrOptionConflict)
    ELSE NoErr

\* ApplyRunOptions: the range loop over customOpts
RECURSIVE applyCustomOpts(_, _)
applyCustomOpts(opts, o) ==
    IF opts = <<>> THEN [options |-> o, err |-> NoErr]
    ELSE LET r == customOpt(Head(opts), o)
         IN  IF ~IsNil(r.err)
             THEN [options |-> ZeroRunOptions, err |-> r.err]
             ELSE applyCustomOpts(Tail(opts), r.options)

\* ApplyRunOptions accepting every option sequence: validate is not called
ApplyRunOptions_NoValidate(repo, opts) ==
    applyCustomOpts(opts, getDefault(repo))

\* ApplyRunOptions
ApplyRunOptions(repo, opts) ==
    LET applied == applyCustomOpts(opts, getDefault(repo))
        e == validate(applied.options)
    IN  IF ~IsNil(applied.err) THEN applied
        ELSE IF ~IsNil(e)
        THEN [options |-> ZeroRunOptions, err |-> Wrap("failed to options.validate", e)]
        ELSE [options |-> applied.options, err |-> NoErr]

\* Pool.Run up to the call of p.run
Run ==
    /\ pc = "Run"
    /\ LET r == ApplyRunOptions(repository, customOpts)
       IN  /\ options' = r.options
           /\ customOpts' = <<>>
           /\ IF ~IsNil(r.err)
              THEN ReturnErr(Wrap("failed to applyTestContainerOptions", r.err))
              ELSE /\ pc' = "initContainer"
                   /\ UNCHANGED <<result, runErr>>
    /\ UNCHANGED <<otherVars, repository, daemon, nextID, ctxDone, path, container, err,
                   reuseTries, probeTries, daemonSteps, calls>>

\* the container the daemon registers for a successful RunWithOptions
CreatedContainer(id, o) ==
    [exists |-> TRUE, ID |-> id, State |-> StRunning,
     Image |-> o.Repository \o ":" \o o.Tag,
     ExposedPorts |-> SeqRange(o.ExposedPorts), PortBindings |-> o.PortBindings,
     Labels |-> o.Labels]

\* outcomes of Pool.createAndStartContainer against the daemon
createAndStartContainer(d) ==
    { [ok |-> FALSE, err |-> Wrap("failed to dockerPool.RunWithOptions", NewErr("RunWithOptions error"))] }
    \cup (IF d.exists
          THEN { [ok |-> FALSE, err |-> Wrap("failed to dockerPool.RunWithOptions",
                                             NewErr(ErrContainerAlreadyExists))] }
          ELSE { [ok |-> TRUE, err |-> NoErr] })

\* initContainer recreating on every collision, RemoveOnExists set or not
initContainerSwitch_RemoveUnasked(createErr, o) ==
    IF IsNil(createErr) THEN "created"
    ELSE IF ErrorsIs(createErr, ErrContainerAlreadyExists) /\ o.Reuse.Reuse THEN "reuse"
    ELSE IF ErrorsIs(createErr, ErrContainerAlreadyExists) THEN "RemoveOnExists"
    ELSE "failed"

\* initContainer taking the reuse branch for RemoveOnExists as well
initContainerSwitch_ReuseOnRemove(createErr, o) ==
    IF IsNil(createErr) THEN "created"
    ELSE IF ErrorsIs(createErr, ErrContainerAlreadyExists)
            /\ (o.Reuse.Reuse \/ o.RemoveOnExists) THEN "reuse"
    ELSE "failed"

\* initContainer applying the collision policies to every error of the create
initContainerSwitch_AnyCreateError(createErr, o) ==
    IF IsNil(createErr) THEN "created"
    ELSE IF o.Reuse.Reuse THEN "reuse"
    ELSE IF o.RemoveOnExists THEN "RemoveOnExists"
    ELSE "failed"

\* the switch of initContainer on the error of the first create call
initContainerSwitch(createErr, o) ==
    IF IsNil(createErr) THEN "created"
    ELSE IF ErrorsIs(createErr, ErrContainerAlreadyExists) /\ o.Reuse.Reuse THEN "reuse"
    ELSE IF ErrorsIs(createErr, ErrContainerAlreadyExists) /\ o.RemoveOnExists THEN "RemoveOnExists"
    ELSE "failed"

\* Pool.initContainer: first create call and the switch on its error
initContainer ==
    /\ pc = "initContainer"
    /\ \E r \in createAndStartContainer(daemon) :
        /\ calls' = Append(calls, Call("RunWithOptions", IF r.ok THEN nextID ELSE 0, StNone,
                                        IF r.ok THEN "ok" ELSE r.err.msg[Len(r.err.msg)]))
        /\ path' = initContainerSwitch(r.err, options)
        /\ CASE path' = "created" ->
                  /\ daemon' = CreatedContainer(nextID, options)
                  /\ nextID' = nextID + 1
                  /\ container' = ContainerByName(daemon').container
                  /\ pc' = "expire"
                  /\ UNCHANGED <<result, runErr>>
             [] path' = "reuse" ->
                  /\ pc' = "reuseContainer"
                  /\ UNCHANGED <<daemon, nextID, container, result, runErr>>
             [] path' = "RemoveOnExists" ->
                  /\ pc' = "recreateContainer"
                  /\ UNCHANGED <<daemon, nextID, container, result, runErr>>
             [] OTHER ->
                  /\ ReturnErr(Wrap("failed to initContainer",
                                    Wrap("failed to createAndStartContainer", r.err)))
                  /\ UNCHANGED <<daemon, nextID, container>>
    /\ UNCHANGED <<otherVars, repository, customOpts, options, ctxDone, err, reuseTries, probeTries, daemonSteps>>

-----------------------------------------------------------------------------
(* reuseOrRecreateContainer / reuseContainer *)

\* reuseContainer returning the container of its first try after the loop
reuseSucceeded_FirstSnapshot(c) ==
    /\ container' = IF container # NilContainer THEN container ELSE c
    /\ pc' = "expire"
    /\ UNCHANGED <<path, err, result, runErr>>

\* reuseOrRecreateContainer, case err == nil, back through initContainer
reuseSucceeded(c) ==
    /\ container' = c
    /\ pc' = "expire"
    /\ UNCHANGED <<path, err, result, runErr>>

\* reuseOrRecreateContainer recreating only after a failure that is not permanent
reuseFailed_PermanentNotRecreated(e) ==
    IF options.Reuse.RecreateOnErr /\ ~IsPermanent(e)
    THEN /\ err' = Wrap("failed to reuseContainer", e)
         /\ path' = "RecreateOnErr"
         /\ pc' = "recreateContainer"
         /\ container' = NilContainer
         /\ UNCHANGED <<result, runErr>>
    ELSE /\ container' = NilContainer
         /\ ReturnErr(Wrap("failed to initContainer",
                           Wrap("failed to reuseOrRecreateContainer",
                                Wrap("failed to reuseContainer", e))))
         /\ UNCHANGED <<path, err>>

\* reuseOrRecreateContainer, reuseContainer returned e # nil
reuseFailed(e) ==
    IF options.Reuse.RecreateOnErr
    THEN /\ err' = Wrap("failed to reuseContainer", e)
         /\ path' = "RecreateOnErr"
         /\ pc' = "recreateContainer"
         /\ container' = NilContainer
         /\ UNCHANGED <<result, runErr>>
    ELSE /\ container' = NilContainer
         /\ ReturnErr(Wrap("failed to initContainer",
                           Wrap("failed to reuseOrRecreateContainer",
                                Wrap("failed to reuseContainer", e))))
         /\ UNCHANGED <<path, err>>

\* reuseContainer: the first try() and the branch on its result
reuseContainer ==
    /\ pc = "reuseContainer"
    /\ LET r == try(daemon, options)
       IN  /\ calls' = Append(calls, Lookup(daemon.ID, daemon.State,
                                           IF daemon.exists THEN "ok" ELSE "not found",
                                           r.checks))
           /\ IF IsNil(r.err) THEN reuseSucceeded(r.container)
              ELSE IF IsPermanent(r.err) THEN reuseFailed(r.err)
              ELSE /\ container' = r.container
                   /\ pc' = "repairForReuse"
                   /\ UNCHANGED <<path, err, result, runErr>>
    /\ UNCHANGED <<otherVars, repository, customOpts, options, daemon, nextID, ctxDone, reuseTries, probeTries, daemonSteps>>

\* client.UnpauseContainer: succeeds only on a paused container
UnpauseContainer(d, id) ==
    { [ok |-> FALSE, daemon |-> d] }
    \cup (IF d.exists /\ d.ID = id /\ d.State.Paused
          THEN { [ok |-> TRUE, daemon |-> [d EXCEPT !.State = StRunning]] }
          ELSE {})

\* client.StartContainer: succeeds only on a container that is not running
StartContainer(d, id) ==
    { [ok |-> FALSE, daemon |-> d] }
    \cup (IF d.exists /\ d.ID = id /\ ~d.State.Running
          THEN { [ok |-> TRUE, daemon |-> [d EXCEPT !.State = StRunning]] }
          ELSE {})

\* a reuseContainer that enters the backoff loop also when the corrective call
\* of repairForReuse failed
repairForReuseStep_IgnoresCallError ==
    /\ pc = "repairForReuse"
    /\ LET action == repairForReuse(container)
       IN  CASE action = "nothing" ->
                  /\ pc' = "Retry"
                  /\ UNCHANGED <<daemon, calls, container, path, err, result, runErr>>
             [] action = "UnpauseContainer" ->
                  \E r \in UnpauseContainer(daemon, container.ID) :
                      /\ calls' = Append(calls, Call("UnpauseContainer", container.ID, StNone,
                                                 IF r.ok THEN "ok" ELSE "error"))
                      /\ daemon' = r.daemon
                      /\ pc' = "Retry"
                      /\ UNCHANGED <<container, path, err, result, runErr>>
             [] action = "StartContainer" ->
                  \E r \in StartContainer(daemon, container.ID) :
                      /\ calls' = Append(calls, Call("StartContainer", container.ID, StNone,
                                                 IF r.ok THEN "ok" ELSE "error"))
                      /\ daemon' = r.daemon
                      /\ pc' = "Retry"
                      /\ UNCHANGED <<container, path, err, result, runErr>>
             [] action = "unreusable" ->
                  /\ reuseFailed(Wrap("failed to repairForReuse",
                                      Permanent(NewErr(ErrUnreusableState))))
                  /\ UNCHANGED <<daemon, calls>>
             [] OTHER ->
                  /\ reuseFailed(Wrap("failed to repairForReuse",
                                      NewErr("unexpected Container.State")))
                  /\ UNCHANGED <<daemon, calls>>
    /\ UNCHANGED <<otherVars, repository, customOpts, options, nextID, ctxDone, reuseTries, probeTries, daemonSteps>>

\* reuseContainer: the call of repairForReuse on the container of the first try
repairForReuseStep ==
    /\ pc = "repairForReuse"
    /\ LET action == repairForReuse(container)
       IN  CASE action = "nothing" ->
                  /\ pc' = "Retry"
                  /\ UNCHANGED <<daemon, calls, container, path, err, result, runErr>>
             [] action = "UnpauseContainer" ->
                  \E r \in UnpauseContainer(daemon, container.ID) :
                      /\ calls' = Append(calls, Call("UnpauseContainer", container.ID, StNone,
                                                 IF r.ok THEN "ok" ELSE "error"))
                      /\ daemon' = r.daemon
                      /\ IF r.ok
                         THEN /\ pc' = "Retry"
                              /\ UNCHANGED <<container, path, err, result, runErr>>
                         ELSE reuseFailed(Wrap("failed to repairForReuse",
                                  Wrap("failed to UnpauseContainer", NewErr("UnpauseContainer error"))))
             [] action = "StartContainer" ->
                  \E r \in StartContainer(daemon, container.ID) :
                      /\ calls' = Append(calls, Call("StartContainer", container.ID, StNone,
                                                 IF r.ok THEN "ok" ELSE "error"))
                      /\ daemon' = r.daemon
                      /\ IF r.ok
                         THEN /\ pc' = "Retry"
                              /\ UNCHANGED <<container, path, err, result, runErr>>
                         ELSE reuseFailed(Wrap("failed to repairForReuse",
                                  Wrap("failed to StartContainer on exited status",
                                       NewErr("StartContainer error"))))
             [] action = "unreusable" ->
                  /\ reuseFailed(Wrap("failed to repairForReuse",
                                      Permanent(NewErr(ErrUnreusableState))))
                  /\ UNCHANGED <<daemon, calls>>
             [] OTHER ->
                  /\ reuseFailed(Wrap("failed to repairForReuse",
                                      NewErr("unexpected Container.State")))
                  /\ UNCHANGED <<daemon, calls>>
    /\ UNCHANGED <<otherVars, repository, customOpts, options, nextID, ctxDone, reuseTries, probeTries, daemonSteps>>

\* what backoff.Retry does after a failed attempt that is not permanent:
\* the context's error, the backoff's Stop, or a wait for the next attempt
RetryDecisions(cancelled, tries, maxTries) ==
    IF cancelled THEN {"ctx"}
    ELSE {"stop"} \cup (IF tries < maxTries THEN {"wait"} ELSE {})

\* reuseContainer: one attempt of backoff.Retry(ctx, try, options.Reuse.Backoff)
reuseRetry ==
    /\ pc = "Retry"
    /\ reuseTries' = reuseTries + 1
    /\ LET r == try(daemon, options)
       IN  /\ calls' = Append(calls, Lookup(daemon.ID, daemon.State,
                                           IF daemon.exists THEN "ok" ELSE "not found",
                                           r.checks))
           /\ IF IsNil(r.err) THEN reuseSucceeded(r.container)
              ELSE IF IsPermanent(r.err)
              THEN reuseFailed(Wrap("failed to retry after repairForReuse", r.err))
              ELSE \E d \in RetryDecisions(ctxDone, reuseTries', MaxReuseTries) :
                     CASE d = "ctx" ->
                            reuseFailed(Wrap("failed to retry after repairForReuse",
                                             NewErr("context canceled")))
                       [] d = "stop" ->
                            reuseFailed(Wrap("failed to retry after repairForReuse", r.err))
                       [] OTHER ->
                            /\ pc' = "RetryWait"
                            /\ UNCHANGED <<container, path, err, result, runErr>>
    /\ UNCHANGED <<otherVars, repository, customOpts, options, daemon, nextID, ctxDone, probeTries, daemonSteps>>

\* a reuse loop that repairs the container again before every attempt
reuseRetryWait_RepairsAgain ==
    /\ pc = "RetryWait"
    /\ IF ctxDone
       THEN reuseFailed(Wrap("failed to retry after repairForReuse",
                             NewErr("context canceled")))
       ELSE /\ pc' = "repairForReuse"
            /\ container' = ContainerByName(daemon).container
            /\ UNCHANGED <<path, err, result, runErr>>
    /\ UNCHANGED <<otherVars, repository, customOpts, options, daemon, nextID, ctxDone, reuseTries, probeTries,
                   daemonSteps, calls>>

\* reuseContainer: backoff.Retry waits for the timer or for ctx.Done()
reuseRetryWait ==
    /\ pc = "RetryWait"
    /\ IF ctxDone
       THEN reuseFailed(Wrap("failed to retry after repairForReuse",
                             NewErr("context canceled")))
       ELSE /\ pc' = "Retry"
            /\ UNCHANGED <<container, path, err, result, runErr>>
    /\ UNCHANGED <<otherVars, repository, customOpts, options, daemon, nextID, ctxDone, reuseTries, probeTries,
                   daemonSteps, calls>>

-----------------------------------------------------------------------------
(* recreateContainer *)

\* Pool.RemoveContainerByName: a forced removal of the named container
RemoveContainerByName(d) ==
    { [ok |-> FALSE, daemon |-> d], [ok |-> TRUE, daemon |-> NoDaemonContainer] }

\* the error reuseOrRecreateContainer returns when recreateContainer failed
reuseOrRecreateErr(reuseErr, recreateErr) ==
    Join(reuseErr, Wrap("failed to recreateContainer after reuseContainer err", reuseErr))

\* recreateContainer returned recreateErr # nil, back through initContainer
recreateFailed(recreateErr) ==
    /\ container' = NilContainer
    /\ IF path = "RecreateOnErr"
       THEN ReturnErr(Wrap("failed to initContainer",
                           Wrap("failed to reuseOrRecreateContainer",
                                reuseOrRecreateErr(err, recreateErr))))
       ELSE ReturnErr(Wrap("failed to initContainer",
                           Wrap("failed to recreateContainer by options.RemoveOnExists",
                                recreateErr)))

\* recreateContainer: the call of RemoveContainerByName
recreateContainer ==
    /\ pc = "recreateContainer"
    /\ \E r \in RemoveContainerByName(daemon) :
        /\ calls' = Append(calls, Call("RemoveContainerByName", daemon.ID, StNone,
                                        IF r.ok THEN "ok" ELSE "error"))
        /\ daemon' = r.daemon
        /\ IF r.ok
           THEN /\ pc' = "recreateCreate"
                /\ UNCHANGED <<container, result, runErr>>
           ELSE recreateFailed(Wrap("failed to p.RemoveContainerByName", NewErr("RemoveContainerByName error")))
    /\ UNCHANGED <<otherVars, repository, customOpts, options, nextID, ctxDone, path, err, reuseTries, probeTries, daemonSteps>>

\* a recreateContainer that removes and creates again on every collision
recreateCreate_AgainOnExists ==
    /\ pc = "recreateCreate"
    /\ \E r \in createAndStartContainer(daemon) :
        /\ calls' = Append(calls, Call("RunWithOptions", IF r.ok THEN nextID ELSE 0, StNone,
                                        IF r.ok THEN "ok" ELSE r.err.msg[Len(r.err.msg)]))
        /\ IF r.ok
           THEN /\ daemon' = CreatedContainer(nextID, options)
                /\ nextID' = nextID + 1
                /\ container' = ContainerByName(daemon').container
                /\ pc' = "expire"
                /\ UNCHANGED <<result, runErr>>
           ELSE IF ErrorsIs(r.err, ErrContainerAlreadyExists)
           THEN /\ pc' = "recreateContainer"
                /\ UNCHANGED <<daemon, nextID, container, result, runErr>>
           ELSE /\ UNCHANGED <<daemon, nextID>>
                /\ recreateFailed(Wrap("failed to createAndStartContainer", r.err))
    /\ UNCHANGED <<otherVars, repository, customOpts, options, ctxDone, path, err, reuseTries, probeTries, daemonSteps>>

\* recreateContainer: the second call of createAndStartContainer
recreateCreate ==
    /\ pc = "recreateCreate"
    /\ \E r \in createAndStartContainer(daemon) :
        /\ calls' = Append(calls, Call("RunWithOptions", IF r.ok THEN nextID ELSE 0, StNone,
                                        IF r.ok THEN "ok" ELSE r.err.msg[Len(r.err.msg)]))
        /\ IF r.ok
           THEN /\ daemon' = CreatedContainer(nextID, options)
                /\ nextID' = nextID + 1
                /\ container' = ContainerByName(daemon').container
                /\ pc' = "expire"
                /\ UNCHANGED <<result, runErr>>
           ELSE /\ UNCHANGED <<daemon, nextID>>
                /\ recreateFailed(Wrap("failed to createAndStartContainer", r.err))
    /\ UNCHANGED <<otherVars, repository, customOpts, options, ctxDone, path, err, reuseTries, probeTries, daemonSteps>>

-----------------------------------------------------------------------------
(* Pool.run after initContainer: expiry and the readiness probe *)

\* Pool.Purge: the removal is attempted, its error is dropped by run
Purge(d, id) ==
    IF d.exists /\ d.ID = id THEN {d, NoDaemonContainer} ELSE {d}

\* run: container.Expire when options.ContainerExpiry != 0
expire ==
    /\ pc = "expire"
    /\ IF options.ContainerExpiry # 0
       THEN \E ok \in BOOLEAN :
              IF ok
              THEN /\ calls' = Append(calls, Call("Expire", container.ID, StNone, "ok"))
                   /\ UNCHANGED daemon
                   /\ IF options.Retry.Operation
                      THEN pc' = "probe" /\ UNCHANGED <<result, runErr>>
                      ELSE ReturnOk(container)
              ELSE /\ calls' = calls \o <<Call("Expire", container.ID, StNone, "error"),
                                          Call("Purge", container.ID, StNone, "dropped")>>
                   /\ daemon' \in Purge(daemon, container.ID)
                   /\ ReturnErr(Wrap("failed to container.Expire", NewErr("expire error")))
       ELSE /\ UNCHANGED <<calls, daemon>>
            /\ IF options.Retry.Operation
               THEN pc' = "probe" /\ UNCHANGED <<result, runErr>>
               ELSE ReturnOk(container)
    /\ UNCHANGED <<otherVars, repository, customOpts, options, nextID, ctxDone, path, container, err, reuseTries,
                   probeTries, daemonSteps>>

\* results of one call of options.Retry.Operation
OperationResults ==
    { NoErr, NewErr("operation error"), Permanent(NewErr("operation permanent error")) }

\* run returning the error of the readiness probe without the call of Purge
probeFailed_NoPurge(e) ==
    /\ calls' = Append(calls, Call("Operation", container.ID, StNone, "error"))
    /\ UNCHANGED daemon
    /\ ReturnErr(Wrap("failed to retry", e))

\* a run that purges on a failed readiness probe only a container it created
probeFailed_KeepsReused(e) ==
    /\ IF path = "reuse"
       THEN /\ calls' = Append(calls, Call("Operation", container.ID, StNone, "error"))
            /\ UNCHANGED daemon
       ELSE /\ calls' = calls \o <<Call("Operation", container.ID, StNone, "error"),
                                   Call("Purge", container.ID, StNone, "dropped")>>
            /\ daemon' \in Purge(daemon, container.ID)
    /\ ReturnErr(Wrap("failed to retry", e))

\* run: the readiness probe failed for good
probeFailed(e) ==
    /\ calls' = calls \o <<Call("Operation", container.ID, StNone, "error"),
                           Call("Purge", container.ID, StNone, "dropped")>>
    /\ daemon' \in Purge(daemon, container.ID)
    /\ ReturnErr(Wrap("failed to retry", e))

\* one attempt of a retry loop that looks at the context before the operation
probe_ContextFirst ==
    /\ pc = "probe"
    /\ probeTries' = probeTries + 1
    /\ IF ctxDone
       THEN /\ calls' = Append(calls, Call("Purge", container.ID, StNone, "dropped"))
            /\ daemon' \in Purge(daemon, container.ID)
            /\ ReturnErr(Wrap("failed to retry", NewErr("context canceled")))
       ELSE \E e \in OperationResults :
              IF IsNil(e)
              THEN /\ calls' = Append(calls, Call("Operation", container.ID, StNone, "ok"))
                   /\ UNCHANGED daemon
                   /\ ReturnOk(container)
              ELSE IF IsPermanent(e) THEN probeFailed(e)
              ELSE \E d \in RetryDecisions(ctxDone, probeTries', MaxProbeTries) :
                     CASE d = "stop" -> probeFailed(e)
                       [] OTHER ->
                            /\ calls' = Append(calls, Call("Operation", container.ID, StNone, "error"))
                            /\ pc' = "probeWait"
                            /\ UNCHANGED <<daemon, result, runErr>>
    /\ UNCHANGED <<otherVars, repository, customOpts, options, nextID, ctxDone, path,
                   container, err, reuseTries, daemonSteps>>

\* run: one attempt of backoff.Retry(ctx, options.Retry.Operation, options.Retry.Backoff)
probe ==
    /\ pc = "probe"
    /\ probeTries' = probeTries + 1
    /\ \E e \in OperationResults :
         IF IsNil(e)
         THEN /\ calls' = Append(calls, Call("Operation", container.ID, StNone, "ok"))
              /\ UNCHANGED daemon
              /\ ReturnOk(container)
         ELSE IF IsPermanent(e) THEN probeFailed(e)
         ELSE \E d \in RetryDecisions(ctxDone, probeTries', MaxProbeTries) :
                CASE d = "ctx" -> probeFailed(NewErr("context canceled"))
                  [] d = "stop" -> probeFailed(e)
                  [] OTHER ->
                       /\ calls' = Append(calls, Call("Operation", container.ID, StNone, "error"))
                       /\ pc' = "probeWait"
                       /\ UNCHANGED <<daemon, result, runErr>>
    /\ UNCHANGED <<otherVars, repository, customOpts, options, nextID, ctxDone, path, container, err, reuseTries, daemonSteps>>

\* run: backoff.Retry waits for the timer or for ctx.Done()
probeWait ==
    /\ pc = "probeWait"
    /\ IF ctxDone
       THEN /\ calls' = Append(calls, Call("Purge", container.ID, StNone, "dropped"))
            /\ daemon' \in Purge(daemon, container.ID)
            /\ ReturnErr(Wrap("failed to retry", NewErr("context canceled")))
       ELSE /\ pc' = "probe"
            /\ UNCHANGED <<daemon, calls, result, runErr>>
    /\ UNCHANGED <<otherVars, repository, customOpts, options, nextID, ctxDone, path, container, err, reuseTries,
                   probeTries, daemonSteps>>

-----------------------------------------------------------------------------
(* The environment: the daemon and the caller *)

Running == pc \notin {"Run", "done"}

\* the lifecycle transitions the daemon or another client of it can make
DaemonMoves(st) ==
    CASE st = StRunning -> {StPaused, StRestarting, StExited, StOOMExited, StRemoving}
      [] st = StPaused -> {StRunning, StExited}
      [] st = StRestarting -> {StRunning, StExited}
      [] st = StExited -> {StRunning, StRestarting, StRemoving}
      [] st = StOOMExited -> {StRunning, StRestarting, StRemoving}
      [] st = StCreated -> {StRunning, StRemoving}
      [] st = StRemoving -> {StDead}
      [] st = StDead -> {StRemoving}
      [] OTHER -> {}

\* the daemon moves the container to another lifecycle state
DaemonChangesState ==
    /\ Running
    /\ daemon.exists
    /\ daemonSteps < MaxDaemonSteps
    /\ \E st \in DaemonMoves(daemon.State) : daemon' = [daemon EXCEPT !.State = st]
    /\ daemonSteps' = daemonSteps + 1
    /\ UNCHANGED <<otherVars, repository, customOpts, options, nextID, ctxDone, pc, path, container, err, reuseTries,
                   probeTries, calls, result, runErr>>

\* the daemon finishes a removal of the container (AutoRemove, expiry)
DaemonRemovesContainer ==
    /\ Running
    /\ daemon.exists
    /\ daemonSteps < MaxDaemonSteps
    /\ daemon' = NoDaemonContainer
    /\ daemonSteps' = daemonSteps + 1
    /\ UNCHANGED <<otherVars, repository, customOpts, options, nextID, ctxDone, pc, path, container, err, reuseTries,
                   probeTries, calls, result, runErr>>

\* the caller cancels ctx
Cancel ==
    /\ Running
    /\ ~ctxDone
    /\ ctxDone' = TRUE
    /\ UNCHANGED <<otherVars, repository, customOpts, options, daemon, nextID, pc, path, container, err, reuseTries,
                   probeTries, daemonSteps, calls, result, runErr>>

Next ==
    \/ Run
    \/ initContainer
    \/ reuseContainer
    \/ repairForReuseStep
    \/ reuseRetry
    \/ reuseRetryWait
    \/ recreateContainer
    \/ recreateCreate
    \/ expire
    \/ probe
    \/ probeWait
    \/ DaemonChangesState
    \/ DaemonRemovesContainer
    \/ Cancel

Spec == Init /\ [][Next]_vars

\* Run with Reuse.Reuse set and the ConfigChecks the caller chose, against a
\* daemon that holds a running container under the requested name
ConfigCheckOptionSeqs ==
    { <<[fn |-> "Reuse.Reuse = true"]>> }
    \cup { <<[fn |-> "Reuse.Reuse = true"], cc>> : cc \in ConfigCheckOptions }

InitConfigChecks == RunInit({ExistingContainer(StRunning)}, ConfigCheckOptionSeqs)

SpecConfigChecks == InitConfigChecks /\ [][Next]_vars

\* Run against a daemon where another program holds the requested name with a
\* container that does not carry the tcontainer label
InitForeign ==
    RunInit({ ForeignContainer(st) : st \in States }, SeqsUpTo(PolicyOptions, MaxOpts))

SpecForeign == InitForeign /\ [][Next]_vars

\* requests that differ from the existing container in any of the image, the
\* exposed ports and the port bindings
MismatchConfigs ==
    { [Tag |-> tag, ExposedPorts |-> exposed, PortBindings |-> bindings] :
        tag \in {"latest", "1.36"},
        exposed \in {<<"80">>, <<"80", "9999">>},
        bindings \in {NoBindings, "80" :> <<Binding("", "9090")>>} }

\* Reuse.Reuse set and lists of up to three ConfigChecks
CheckListOptionSeqs ==
    { <<[fn |-> "Reuse.Reuse = true"]>> \o more :
        more \in { <<>>,
                   <<[fn |-> "ConfigChecks = append(ConfigChecks, failing check)"]>>,
                   <<[fn |-> "ConfigChecks = append(ConfigChecks, passing check)"],
                     [fn |-> "ConfigChecks = append(ConfigChecks, failing check)"]>>,
                   <<[fn |-> "ConfigChecks = append(ConfigChecks, failing check)"],
                     [fn |-> "ConfigChecks = append(ConfigChecks, passing check)"]>>,
                   <<[fn |-> "ConfigChecks = {failing check}"],
                     [fn |-> "ConfigChecks = append(ConfigChecks, passing check)"]>>,
                   <<[fn |-> "ConfigChecks = {passing check}"],
                     [fn |-> "ConfigChecks = append(ConfigChecks, failing check)"]>> } }

\* Run with those requests and lists against a running container
InitCheckOrder ==
    RunInitWith({"busybox"},
                { ConfigOption(cfg, recreateOnErr, 0, hasOperation) :
                    cfg \in MismatchConfigs, recreateOnErr \in BOOLEAN,
                    hasOperation \in BOOLEAN },
                {ExistingContainer(StRunning)}, CheckListOptionSeqs)

SpecCheckOrder == InitCheckOrder /\ [][Next]_vars

\* another client of the daemon creates a container under the requested name
OtherClientCreates ==
    /\ Running
    /\ ~daemon.exists
    /\ daemonSteps < MaxDaemonSteps
    /\ daemon' = [ForeignContainer(StRunning) EXCEPT !.ID = nextID]
    /\ nextID' = nextID + 1
    /\ daemonSteps' = daemonSteps + 1
    /\ UNCHANGED <<otherVars, repository, customOpts, options, ctxDone, pc, path, container, err,
                   reuseTries, probeTries, calls, result, runErr>>

\* the steps of Pool.Run itself
RunSteps ==
    \/ Run
    \/ initContainer
    \/ reuseContainer
    \/ repairForReuseStep
    \/ reuseRetry
    \/ reuseRetryWait
    \/ recreateContainer
    \/ recreateCreate
    \/ expire
    \/ probe
    \/ probeWait

NextBounded ==
    \/ Next
    \/ OtherClientCreates

\* Run with either collision policy or none, against a daemon where the name
\* is free or taken and other clients remove and create containers
InitBounded ==
    RunInitWith({"busybox"},
                { ConfigOption(cfg, recreateOnErr, 0, hasOperation) :
                    cfg \in { c \in RequestConfigs : c.ExposedPorts = <<"80">>
                                                      /\ c.PortBindings = NoBindings },
                    recreateOnErr \in BOOLEAN, hasOperation \in BOOLEAN },
                {NoDaemonContainer, ExistingContainer(StRunning), ExistingContainer(StPaused)},
                { <<>>, <<[fn |-> "Reuse.Reuse = true"]>>, <<[fn |-> "RemoveOnExists = true"]>> })

\* Run is scheduled: the goroutine that called it keeps running, the daemon
\* answers every call and the backoff timers fire
SpecBounded == InitBounded /\ [][NextBounded]_vars /\ WF_vars(RunSteps)

-----------------------------------------------------------------------------
(* Pool.Prune: prune.go and prune_options.go *)

\* Pool.Run is not called
NoRun ==
    /\ repository = ""
    /\ customOpts = <<>>
    /\ options = ZeroRunOptions
    /\ daemon = NoDaemonContainer
    /\ nextID = ExistingID + 1
    /\ ctxDone = FALSE
    /\ pc = "none"
    /\ path = "none"
    /\ container = NilContainer
    /\ err = NoErr
    /\ reuseTries = 0
    /\ probeTries = 0
    /\ daemonSteps = 0
    /\ calls = <<>>
    /\ result = NilContainer
    /\ runErr = NoErr

\* a container or an image of the daemon
Resource(kind, id, labels) == [kind |-> kind, ID |-> id, Labels |-> labels, exists |-> TRUE]

\* the containers and images the daemon may hold when Prune is called: made by
\* this package, and one of each made by somebody else
InitialResources ==
    { Resource("container", 1, {DefaultLabelKeyValue}),
      Resource("container", 2, {DefaultLabelKeyValue}),
      Resource("container", 3, {}),
      Resource("image", 4, {DefaultLabelKeyValue}),
      Resource("image", 5, {}) }

FirstFreeID == 6

\* the PruneOptions a caller passes: a filter change, or an option that fails
PruneOptionSeqs ==
    { <<>>, <<"PruneContainersOption.Filters = nil">>, <<"return error">> }

\* PruneOptions.getDefault: Filters as the set of labels a resource must carry
PruneOptionsDefault ==
    [PruneContainersOption |-> [Filters |-> {DefaultLabelKeyValue}],
     PruneImagesOption |-> [Filters |-> {DefaultLabelKeyValue}]]

\* ApplyPruneOptions: defaults, then the custom options in order
RECURSIVE applyPruneCustomOpts(_, _)
applyPruneCustomOpts(opts, o) ==
    IF opts = <<>> THEN [options |-> o, err |-> NoErr]
    ELSE IF Head(opts) = "PruneContainersOption.Filters = nil"
    THEN applyPruneCustomOpts(Tail(opts), [o EXCEPT !.PruneContainersOption.Filters = {}])
    ELSE IF Head(opts) = "PruneImagesOption.Filters = nil"
    THEN applyPruneCustomOpts(Tail(opts), [o EXCEPT !.PruneImagesOption.Filters = {}])
    ELSE [options |-> o, err |-> NewErr("option error")]

ApplyPruneOptions(opts) == applyPruneCustomOpts(opts, PruneOptionsDefault)

\* the daemon's label filter of ListContainers / ListImages taking every resource
MatchesFilters_Any(r, filters) == TRUE

\* the daemon's label filter of ListContainers / ListImages
MatchesFilters(r, filters) == filters \subseteq r.Labels

\* client.ListContainers / client.ListImages with Filters: the IDs listed
List(d, kind, filters) ==
    { r.ID : r \in { x \in d.resources : x.kind = kind /\ x.exists /\ MatchesFilters(x, filters) } }

\* one pass of Prune, pruneContainers or pruneImages, not yet started
NoPass == [pc |-> "none", listed |-> {}, todo |-> {}, err |-> NoErr, ret |-> NoErr]

\* the error a removal goroutine joins into err
RemoveErr(kind, id) ==
    IF kind = "container"
    THEN Wrap("failed to RemoveContainer", NewErr("RemoveContainer error " \o ToString(id)))
    ELSE Wrap("failed to RemoveImageExtended", NewErr("RemoveImageExtended error " \o ToString(id)))

InitPrune ==
    /\ NoRun
    /\ \E rs \in SUBSET InitialResources :
          docker = [resources |-> rs, nextID |-> FirstFreeID, created |-> 0]
    /\ \E opts \in PruneOptionSeqs :
          prune = [pc |-> "Prune", customOptions |-> opts,
                   container |-> NoPass, image |-> NoPass,
                   err |-> NoErr, ret |-> NoErr, removals |-> {}]
    /\ retry = NoCall
    /\ configCheck = NoCall
    /\ apply = NoCall
    /\ stateCheck = NoCall

\* Prune: wg.Add(2) and the start of the two goroutines
Prune ==
    /\ prune.pc = "Prune"
    /\ prune' = [prune EXCEPT !.pc = "wg.Wait", !.container.pc = "start", !.image.pc = "start"]
    /\ UNCHANGED <<runVars, docker, retry, configCheck, apply, stateCheck>>

\* pruneContainers / pruneImages up to the loop: ApplyPruneOptions and the listing
pruneList(kind, opts) ==
    /\ prune.pc = "wg.Wait"
    /\ prune[kind].pc = "start"
    /\ LET o == ApplyPruneOptions(opts)
           filters == IF kind = "container" THEN o.options.PruneContainersOption.Filters
                      ELSE o.options.PruneImagesOption.Filters
           listing == IF kind = "container" THEN "ListContainers" ELSE "ListImages"
       IN  IF ~IsNil(o.err)
           THEN prune' = [prune EXCEPT ![kind].pc = "returned",
                                       ![kind].ret = Wrap("failed to applyPruneOptions", o.err)]
           ELSE \/ prune' = [prune EXCEPT ![kind].pc = "returned",
                                          ![kind].ret = Wrap("failed to " \o listing,
                                                             NewErr(listing \o " error"))]
                \/ prune' = [prune EXCEPT ![kind].pc = "remove",
                                          ![kind].listed = List(docker, kind, filters),
                                          ![kind].todo = List(docker, kind, filters)]
    /\ UNCHANGED <<runVars, docker, retry, configCheck, apply, stateCheck>>

\* the resource the daemon holds under id
ResourceByID(d, id) == CHOOSE r \in d.resources : r.ID = id

\* one goroutine of the loop: RemoveContainer / RemoveImageExtended with Force,
\* and the join of its error under the mutex
removeListed(kind) ==
    /\ prune[kind].pc = "remove"
    /\ \E id \in prune[kind].todo :
         \/ /\ ResourceByID(docker, id).exists
            /\ docker' = [docker EXCEPT !.resources =
                             (@ \ {ResourceByID(docker, id)})
                             \cup {[ResourceByID(docker, id) EXCEPT !.exists = FALSE]}]
            /\ prune' = [prune EXCEPT ![kind].todo = @ \ {id},
                                      !.removals = @ \cup {[kind |-> kind, ID |-> id, ok |-> TRUE]}]
         \/ /\ UNCHANGED docker
            /\ prune' = [prune EXCEPT ![kind].todo = @ \ {id},
                                      ![kind].err = Join(@, RemoveErr(kind, id)),
                                      !.removals = @ \cup {[kind |-> kind, ID |-> id, ok |-> FALSE]}]
    /\ UNCHANGED <<runVars, retry, configCheck, apply, stateCheck>>

\* what pruneContainers / pruneImages return after wg.Wait(), err holding the
\* joined errors of the removals
pruneLoopReturn(e) == NoErr

\* pruneContainers / pruneImages: wg.Wait() and the return
pruneWait(kind) ==
    /\ prune[kind].pc = "remove"
    /\ prune[kind].todo = {}
    /\ prune' = [prune EXCEPT ![kind].pc = "returned",
                              ![kind].ret = pruneLoopReturn(prune[kind].err)]
    /\ UNCHANGED <<runVars, docker, retry, configCheck, apply, stateCheck>>

\* the goroutine of Prune after its pass returned removeErr: the join and wg.Done
pruneJoin(kind) ==
    /\ prune[kind].pc = "returned"
    /\ LET removeErr == prune[kind].ret
           prefix == IF kind = "container" THEN "failed to pruneContainers"
                     ELSE "failed to pruneImages"
       IN  prune' = [prune EXCEPT ![kind].pc = "done",
                                  !.err = IF IsNil(removeErr) THEN @
                                          ELSE Join(@, Wrap(prefix, removeErr))]
    /\ UNCHANGED <<runVars, docker, retry, configCheck, apply, stateCheck>>

pruneContainers == pruneList("container", prune.customOptions)

\* Prune calls p.pruneImages(ctx) without customOptions
pruneImages == pruneList("image", <<>>)

RemoveContainer == removeListed("container")

RemoveImageExtended == removeListed("image")

pruneContainersWait == pruneWait("container")

pruneImagesWait == pruneWait("image")

pruneContainersDone == pruneJoin("container")

pruneImagesDone == pruneJoin("image")

\* what Prune returns after wg.Wait(), err holding the joined errors
pruneReturn(e) == NoErr

\* Prune: wg.Wait() and the return
PruneWait ==
    /\ prune.pc = "wg.Wait"
    /\ prune.container.pc = "done"
    /\ prune.image.pc = "done"
    /\ prune' = [prune EXCEPT !.pc = "done", !.ret = pruneReturn(prune.err)]
    /\ UNCHANGED <<runVars, docker, retry, configCheck, apply, stateCheck>>

\* somebody creates a container or an image while Prune runs
CreateDuringPrune ==
    /\ prune.pc = "wg.Wait"
    /\ docker.created < MaxCreated
    /\ \E kind \in {"container", "image"}, labels \in SUBSET {DefaultLabelKeyValue} :
          docker' = [resources |-> docker.resources \cup {Resource(kind, docker.nextID, labels)},
                     nextID |-> docker.nextID + 1,
                     created |-> docker.created + 1]
    /\ UNCHANGED <<runVars, prune, retry, configCheck, apply, stateCheck>>

NextPrune ==
    \/ Prune
    \/ pruneContainers
    \/ pruneImages
    \/ RemoveContainer
    \/ RemoveImageExtended
    \/ pruneContainersWait
    \/ pruneImagesWait
    \/ pruneContainersDone
    \/ pruneImagesDone
    \/ PruneWait
    \/ CreateDuringPrune

SpecPrune == InitPrune /\ [][NextPrune]_vars

-----------------------------------------------------------------------------
(* internal/retry: Retry over backoff.Retry of cenkalti/backoff v4 *)

\* results of one call of the operation o
RetryOperationResults ==
    { NoErr, NewErr("error A"), NewErr("error B"), Permanent(NewErr("permanent error")) }

\* fmt.Errorf("%w; previous error: %w", e, prev)
WithPreviousError(e, prev) ==
    [is |-> e.is \cup prev.is, msg |-> e.msg \o <<"previous error">> \o prev.msg,
     permanent |-> FALSE]

\* the error backoff.Retry hands back for a PermanentError: the wrapped error
Unwrapped(e) == [is |-> e.is, msg |-> e.msg, permanent |-> FALSE]

InitRetry ==
    /\ NoRun
    /\ docker = {}
    /\ prune = NoCall
    /\ configCheck = NoCall
    /\ apply = NoCall
    /\ stateCheck = NoCall
    /\ retry = [pc |-> "operation", ctxDone |-> FALSE, attempts |-> <<>>,
                err |-> NoErr, prevErr |-> NoErr, ret |-> NoErr]

\* a Retry that joins the previous error whenever there is one, also when
\* backoff.Retry returned nil
retryReturn_JoinsOnSuccess(r, prevErr) ==
    IF ~IsNil(prevErr) THEN WithPreviousError(r, prevErr) ELSE r

\* backoff.Retry returned r: Retry assigns it to err and returns it, joined
\* with prevErr when there is one
retryReturn(r, prevErr) ==
    IF ~IsNil(r)
    THEN IF ~IsNil(prevErr) THEN WithPreviousError(r, prevErr) ELSE r
    ELSE NoErr

\* one attempt of backoff.Retry: the closure (prevErr = err; err = o()) and
\* what backoff.Retry does with its result
retryOperation ==
    /\ retry.pc = "operation"
    /\ \E e \in RetryOperationResults :
         LET prevErr == retry.err
             tried == [retry EXCEPT !.attempts = Append(@, e), !.prevErr = prevErr, !.err = e]
             returned(r) == [tried EXCEPT !.pc = "done", !.err = r,
                                          !.ret = retryReturn(r, prevErr)]
         IN  IF IsNil(e) THEN retry' = returned(NoErr)
             ELSE IF IsPermanent(e) THEN retry' = returned(Unwrapped(e))
             ELSE \E d \in RetryDecisions(retry.ctxDone, Len(tried.attempts), MaxRetryAttempts) :
                    CASE d = "ctx" -> retry' = returned(NewErr("context canceled"))
                      [] d = "stop" -> retry' = returned(e)
                      [] OTHER -> retry' = [tried EXCEPT !.pc = "wait"]
    /\ UNCHANGED <<runVars, docker, prune, configCheck, apply, stateCheck>>

\* backoff.Retry waits for the timer or for ctx.Done()
retryWait ==
    /\ retry.pc = "wait"
    /\ IF retry.ctxDone
       THEN retry' = [retry EXCEPT !.pc = "done", !.err = NewErr("context canceled"),
                                   !.ret = retryReturn(NewErr("context canceled"), retry.prevErr)]
       ELSE retry' = [retry EXCEPT !.pc = "operation"]
    /\ UNCHANGED <<runVars, docker, prune, configCheck, apply, stateCheck>>

\* the context of the BackOffContext is cancelled or reaches its deadline
retryCancel ==
    /\ retry.pc \in {"operation", "wait"}
    /\ ~retry.ctxDone
    /\ retry' = [retry EXCEPT !.ctxDone = TRUE]
    /\ UNCHANGED <<runVars, docker, prune, configCheck, apply, stateCheck>>

NextRetry ==
    \/ retryOperation
    \/ retryWait
    \/ retryCancel

SpecRetry == InitRetry /\ [][NextRetry]_vars

-----------------------------------------------------------------------------
(* defaultContainerConfigCheck called on its own *)

\* the binding lists tried for container port 80, on either side
BindingLists ==
    { <<>>,
      <<Binding("", "8080")>>,
      <<Binding("", "8081")>>,
      <<Binding("127.0.0.1", "8080")>>,
      <<Binding("", "8080"), Binding("", "8081")>>,
      <<Binding("", "8081"), Binding("", "8080")>>,
      <<Binding("127.0.0.1", "8080"), Binding("", "8080")>> }

\* the port-binding maps tried: port 80 absent or bound to one of BindingLists,
\* port 9999 absent or bound once
PortBindingMaps ==
    LET for80 == {NoBindings} \cup { "80" :> l : l \in BindingLists }
        for9999 == {NoBindings, "9999" :> <<Binding("", "9999")>>}
    IN  { a @@ b : a \in for80, b \in for9999 }

\* Env and Cmd of the two sides: equal, or differing in one of them
EnvCmds ==
    { [Env |-> <<>>, Cmd |-> <<>>], [Env |-> <<"NEQ=neq">>, Cmd |-> <<>>],
      [Env |-> <<>>, Cmd |-> <<"neq">>] }

\* the existing containers the check is tried on
CheckedContainers ==
    { Container(ExistingID, StRunning, image, exposed, bindings) @@ [Env |-> <<>>, Cmd |-> <<>>] :
        image \in {"busybox:latest", "busybox:1.36"},
        exposed \in SUBSET {"80", "9999"},
        bindings \in PortBindingMaps }

\* the requests the check is tried with
CheckedOptions ==
    { [getDefault("busybox") EXCEPT !.Tag = tag, !.ExposedPorts = exposed,
                                    !.PortBindings = bindings,
                                    !.Env = ec.Env, !.Cmd = ec.Cmd] :
        tag \in {"latest", "1.36"},
        exposed \in {<<>>, <<"80">>, <<"9999">>, <<"80", "9999">>},
        bindings \in PortBindingMaps,
        ec \in EnvCmds }

InitDefaultCheck ==
    /\ NoRun
    /\ docker = {}
    /\ prune = NoCall
    /\ retry = NoCall
    /\ apply = NoCall
    /\ stateCheck = NoCall
    /\ \E c \in CheckedContainers, o \in CheckedOptions :
          configCheck = [pc |-> "call", container |-> c, expectedOptions |-> o, err |-> NoErr,
                         verdicts |-> <<>>]

\* a check that takes the bindings it matched out of the container snapshot
checkContainerConfig_ConsumesBindings ==
    /\ configCheck.pc = "call"
    /\ configCheck' = [configCheck EXCEPT
                          !.pc = "done",
                          !.err = defaultContainerConfigCheck(configCheck.container,
                                                              configCheck.expectedOptions),
                          !.container.PortBindings =
                              [port \in DOMAIN @ \ DOMAIN configCheck.expectedOptions.PortBindings
                                  |-> @[port]]]
    /\ UNCHANGED <<runVars, docker, prune, retry, apply, stateCheck>>

\* the call defaultContainerConfigCheck(container, expectedOptions)
checkContainerConfig ==
    /\ configCheck.pc = "call"
    /\ configCheck' = [configCheck EXCEPT
                          !.pc = "done",
                          !.err = defaultContainerConfigCheck(configCheck.container,
                                                              configCheck.expectedOptions)]
    /\ UNCHANGED <<runVars, docker, prune, retry, apply, stateCheck>>

\* the caller keeps the verdict and checks the same pair again
checkContainerConfigAgain ==
    /\ configCheck.pc = "done"
    /\ Len(configCheck.verdicts) + 1 < MaxChecks
    /\ configCheck' = [configCheck EXCEPT !.pc = "call",
                                           !.verdicts = Append(@, configCheck.err)]
    /\ UNCHANGED <<runVars, docker, prune, retry, apply, stateCheck>>

NextDefaultCheck ==
    \/ checkContainerConfig
    \/ checkContainerConfigAgain

SpecDefaultCheck == InitDefaultCheck /\ [][NextDefaultCheck]_vars

-----------------------------------------------------------------------------
(* options.go: applyTestContainerOptions over TestContainerOption values;  *)
(* durations are counted in seconds                                        *)

ErrOptionInvalid == "ErrOptionInvalid"

timeSecond == 1
defaultRetryTimeout == 20
defaultAutoremoveContainer == TRUE
defaultReuseContainer == FALSE
defaultReuseContainerTimeout == 20
defaultReuseContainerRecreateOnErr == FALSE
defaultRemoveContainerOnExists == FALSE

\* the zero value of testContainerOptions, standing for the nil pointer
nilTestContainerOptions ==
    [repository |-> "", imageTag |-> "", retryOperation |-> "nil", retryTimeout |-> 0,
     containerExpiry |-> 0, autoremoveContainer |-> FALSE, reuseContainer |-> FALSE,
     reuseContainerTimeout |-> 0, reuseContainerRecreateOnErr |-> FALSE,
     removeContainerOnExists |-> FALSE]

\* the testContainerOptions applyTestContainerOptions starts from
testContainerOptions(repo) ==
    [repository |-> repo, imageTag |-> defaultImageTag, retryOperation |-> "nil",
     retryTimeout |-> defaultRetryTimeout, containerExpiry |-> defaultContainerExpiry,
     autoremoveContainer |-> defaultAutoremoveContainer,
     reuseContainer |-> defaultReuseContainer,
     reuseContainerTimeout |-> defaultReuseContainerTimeout,
     reuseContainerRecreateOnErr |-> defaultReuseContainerRecreateOnErr,
     removeContainerOnExists |-> defaultRemoveContainerOnExists]

WithImageTag(imageTag) == [fn |-> "WithImageTag", imageTag |-> imageTag]

WithRetry(operation, retryTimeout) ==
    [fn |-> "WithRetry", retryOperation |-> operation, retryTimeout |-> retryTimeout]

WithExpiry(containerExpiry) == [fn |-> "WithExpiry", containerExpiry |-> containerExpiry]

WithAutoremove(autoremoveContainer) ==
    [fn |-> "WithAutoremove", autoremoveContainer |-> autoremoveContainer]

WithReuseContainer(reuse, reuseTimeout, recreateOnError) ==
    [fn |-> "WithReuseContainer", reuseContainer |-> reuse,
     reuseTimeout |-> reuseTimeout, recreateOnError |-> recreateOnError]

WithRemoveContainerOnExists(removeContainerOnExists) ==
    [fn |-> "WithRemoveContainerOnExists", removeContainerOnExists |-> removeContainerOnExists]

\* the call customOpt(opts) of one TestContainerOption: the option, then its wrap
TestContainerOption(opt, o) ==
    CASE opt.fn = "WithImageTag" ->
           IF opt.imageTag = ""
           THEN [opts |-> o, err |-> Wrap("failed to apply WithImageTag", NewErr(ErrOptionInvalid))]
           ELSE [opts |-> [o EXCEPT !.imageTag = opt.imageTag], err |-> NoErr]
      [] opt.fn = "WithRetry" ->
           IF opt.retryOperation = "nil" \/ opt.retryTimeout < 0
           THEN [opts |-> o, err |-> Wrap("failed to apply WithRetry", NewErr(ErrOptionInvalid))]
           ELSE [opts |-> [o EXCEPT !.retryOperation = opt.retryOperation,
                                    !.retryTimeout = IF opt.retryTimeout # 0
                                                     THEN opt.retryTimeout ELSE @],
                 err |-> NoErr]
      [] opt.fn = "WithExpiry" ->
           [opts |-> [o EXCEPT !.containerExpiry = opt.containerExpiry], err |-> NoErr]
      [] opt.fn = "WithAutoremove" ->
           [opts |-> [o EXCEPT !.autoremoveContainer = opt.autoremoveContainer], err |-> NoErr]
      [] opt.fn = "WithReuseContainer" ->
           IF ~opt.reuseContainer THEN [opts |-> o, err |-> NoErr]
           ELSE IF o.removeContainerOnExists
           THEN [opts |-> o,
                 err |-> Wrap("failed to apply WithReuseContainer", NewErr(ErrOptionConflict))]
           ELSE IF opt.reuseTimeout # 0 /\ opt.reuseTimeout < timeSecond
           THEN [opts |-> o,
                 err |-> Wrap("failed to apply WithReuseContainer", NewErr(ErrOptionInvalid))]
           ELSE [opts |-> [o EXCEPT !.reuseContainerTimeout = IF opt.reuseTimeout # 0
                                                              THEN opt.reuseTimeout ELSE @,
                                    !.reuseContainer = opt.reuseContainer,
                                    !.reuseContainerRecreateOnErr = opt.recreateOnError],
                 err |-> NoErr]
      [] OTHER ->
           IF ~opt.removeContainerOnExists THEN [opts |-> o, err |-> NoErr]
           ELSE IF o.reuseContainer
           THEN [opts |-> o,
                 err |-> Wrap("failed to apply WithRemoveContainerOnExists",
                              NewErr(ErrOptionConflict))]
           ELSE [opts |-> [o EXCEPT !.removeContainerOnExists = opt.removeContainerOnExists],
                 err |-> NoErr]

\* the options the callers pass
TestContainerOptions ==
    { WithImageTag("1.36"), WithImageTag(""),
      WithRetry("operation", 30), WithRetry("operation", 0),
      WithExpiry(0), WithAutoremove(FALSE),
      WithReuseContainer(TRUE, 5, TRUE), WithReuseContainer(TRUE, 0, FALSE),
      WithReuseContainer(TRUE, -1, FALSE), WithReuseContainer(FALSE, 0, FALSE),
      WithRemoveContainerOnExists(TRUE), WithRemoveContainerOnExists(FALSE) }

\* applyTestContainerOptions: the range loop over customOpts
RECURSIVE rangeCustomOpts(_, _)
rangeCustomOpts(opts, o) ==
    IF opts = <<>> THEN [opts |-> o, err |-> NoErr]
    ELSE LET r == TestContainerOption(Head(opts), o)
         IN  IF ~IsNil(r.err)
             THEN [opts |-> nilTestContainerOptions, err |-> r.err]
             ELSE rangeCustomOpts(Tail(opts), r.opts)

InitApplyOptions ==
    /\ NoRun
    /\ docker = {}
    /\ prune = NoCall
    /\ retry = NoCall
    /\ configCheck = NoCall
    /\ stateCheck = NoCall
    /\ \E given \in SeqsUpTo(TestContainerOptions, MaxTestOpts) :
          apply = [pc |-> "call", repository |-> "busybox", customOpts |-> given,
                   opts |-> nilTestContainerOptions, err |-> NoErr]

\* the call applyTestContainerOptions(repository, customOpts...)
applyTestContainerOptions ==
    /\ apply.pc = "call"
    /\ LET r == rangeCustomOpts(apply.customOpts, testContainerOptions(apply.repository))
       IN  apply' = [apply EXCEPT !.pc = "done", !.opts = r.opts, !.err = r.err]
    /\ UNCHANGED <<runVars, docker, prune, retry, configCheck, stateCheck>>

NextApplyOptions == applyTestContainerOptions

SpecApplyOptions == InitApplyOptions /\ [][NextApplyOptions]_vars

-----------------------------------------------------------------------------
(* checkContainerState and repairForReuse called on their own *)

\* State.Status as the daemon reports it for the flags of a snapshot
StateString(running, paused, restarting, dead, removal, started) ==
    IF running
    THEN IF paused THEN "paused" ELSE IF restarting THEN "restarting" ELSE "running"
    ELSE IF removal THEN "removing"
    ELSE IF dead THEN "dead"
    ELSE IF ~started THEN "created"
    ELSE "exited"

\* the state snapshots an inspect can return: a paused or restarting container
\* counts as running; OOMKilled, Dead and RemovalInProgress are set by the
\* daemon independently of the other flags
StateSnapshots ==
    { St(running, paused, restarting, oom, dead, removal,
         StateString(running, paused, restarting, dead, removal, started)) :
        running \in BOOLEAN, paused \in BOOLEAN, restarting \in BOOLEAN,
        oom \in BOOLEAN, dead \in BOOLEAN, removal \in BOOLEAN, started \in BOOLEAN }
    \cap { st \in [Running : BOOLEAN, Paused : BOOLEAN, Restarting : BOOLEAN,
                   OOMKilled : BOOLEAN, Dead : BOOLEAN, RemovalInProgress : BOOLEAN,
                   Status : {"paused", "restarting", "running", "removing", "dead",
                             "created", "exited"}] :
             (st.Paused \/ st.Restarting) => st.Running }

InitStateCheck ==
    /\ NoRun
    /\ docker = {}
    /\ prune = NoCall
    /\ retry = NoCall
    /\ configCheck = NoCall
    /\ apply = NoCall
    /\ \E st \in StateSnapshots :
          stateCheck = [pc |-> "checkContainerState",
                        container |-> Container(ExistingID, st, ExistingImage,
                                                ExistingExposedPorts, ExistingPortBindings),
                        err |-> NoErr, repair |-> "none"]

\* the call checkContainerState(container.Container) of try()
stateCheckCall ==
    /\ stateCheck.pc = "checkContainerState"
    /\ stateCheck' = [stateCheck EXCEPT !.pc = "repairForReuse",
                                        !.err = checkContainerState(stateCheck.container)]
    /\ UNCHANGED <<runVars, docker, prune, retry, configCheck, apply>>

\* the call repairForReuse(client, container.Container) on the same snapshot
stateCheckRepair ==
    /\ stateCheck.pc = "repairForReuse"
    /\ stateCheck' = [stateCheck EXCEPT !.pc = "done",
                                        !.repair = repairForReuse(stateCheck.container)]
    /\ UNCHANGED <<runVars, docker, prune, retry, configCheck, apply>>

NextStateCheck ==
    \/ stateCheckCall
    \/ stateCheckRepair

SpecStateCheck == InitStateCheck /\ [][NextStateCheck]_vars

-----------------------------------------------------------------------------
(* Pool.Prune with its goroutines, wait groups and mutexes spelled out *)

\* the two passes of Prune
Sweeps == {"container", "image"}

\* what ListContainers / ListImages answers: the listed IDs, in ascending order
RECURSIVE Listing(_)
Listing(ids) ==
    IF ids = {} THEN <<>>
    ELSE LET least == CHOOSE x \in ids : \A y \in ids : x <= y
         IN  <<least>> \o Listing(ids \ {least})

\* the goroutine holding a sync.Mutex, when nobody does
Unlocked == 0

\* a Lock that returns at once, whoever holds the mutex
MayLock_Always(mu) == TRUE

\* sync.Mutex.Lock returns once no goroutine holds the mutex
MayLock(mu) == mu = Unlocked

\* the goroutine of Prune running the pass, as holder of Prune's mutex
GoID(kind) == IF kind = "container" THEN 1 ELSE 2

\* the ID a goroutine of the loop passes to the removal: the loop variable of
\* its own iteration
workerTarget(sweep, w) == sweep.workers[w].ID

\* pruneContainers / pruneImages not yet started: the listing, the loop index,
\* the goroutines started, and mu, wg, err of the function
NoSweep ==
    [pc |-> "none", listed |-> <<>>, next |-> 1, workers |-> <<>>,
     mu |-> Unlocked, wg |-> 0, err |-> NoErr, ret |-> NoErr]

\* the resources the daemon may hold when Prune is called: InitialResources and
\* a second image made by this package
FanOutResources ==
    InitialResources \cup {Resource("image", FirstFreeID, {DefaultLabelKeyValue})}

\* the PruneOptions a caller passes: those of PruneOptionSeqs, and options that
\* change the filter of the image listing
FanOutOptionSeqs ==
    PruneOptionSeqs \cup
        { <<"PruneImagesOption.Filters = nil">>,
          <<"PruneContainersOption.Filters = nil", "PruneImagesOption.Filters = nil">> }

\* a Prune that hands its customOptions to both passes
sweepOptions_Both(kind, customOptions) == customOptions

\* the options Prune hands to the pass: p.pruneContainers(ctx, customOptions...)
\* and p.pruneImages(ctx)
sweepOptions(kind, customOptions) == IF kind = "container" THEN customOptions ELSE <<>>

InitFanOut ==
    /\ NoRun
    /\ \E rs \in SUBSET FanOutResources :
          docker = [resources |-> rs, nextID |-> FirstFreeID + 1, created |-> 0]
    /\ \E opts \in FanOutOptionSeqs :
          prune = [pc |-> "Prune", customOptions |-> opts,
                   container |-> NoSweep, image |-> NoSweep,
                   mu |-> Unlocked, wg |-> 0, err |-> NoErr, ret |-> NoErr, removals |-> {}]
    /\ retry = NoCall
    /\ configCheck = NoCall
    /\ apply = NoCall
    /\ stateCheck = NoCall

\* Prune: wg.Add(2) and the two go statements
goPrune ==
    /\ prune.pc = "Prune"
    /\ prune' = [prune EXCEPT !.pc = "wg.Wait", !.wg = 2,
                              !.container.pc = "start", !.image.pc = "start"]
    /\ UNCHANGED <<runVars, docker, retry, configCheck, apply, stateCheck>>

\* pruneContainers / pruneImages up to the loop: ApplyPruneOptions and the
\* listing, both assigned to the named result err
goList(kind) ==
    /\ prune[kind].pc = "start"
    /\ LET o == ApplyPruneOptions(sweepOptions(kind, prune.customOptions))
           filters == IF kind = "container" THEN o.options.PruneContainersOption.Filters
                      ELSE o.options.PruneImagesOption.Filters
           listing == IF kind = "container" THEN "ListContainers" ELSE "ListImages"
           failed(e) == [prune EXCEPT ![kind].pc = "returned", ![kind].err = e, ![kind].ret = e]
       IN  IF ~IsNil(o.err)
           THEN prune' = failed(Wrap("failed to applyPruneOptions", o.err))
           ELSE \/ prune' = failed(Wrap("failed to " \o listing, NewErr(listing \o " error")))
                \/ prune' = [prune EXCEPT ![kind].pc = "loop",
                                          ![kind].listed = Listing(List(docker, kind, filters))]
    /\ UNCHANGED <<runVars, docker, retry, configCheck, apply, stateCheck>>

\* one iteration of the loop: wg.Add(1) and the go statement
goWorker(kind) ==
    /\ prune[kind].pc = "loop"
    /\ prune[kind].next <= Len(prune[kind].listed)
    /\ prune' = [prune EXCEPT
                   ![kind].workers = Append(@, [ID |-> prune[kind].listed[prune[kind].next],
                                                pc |-> "go"]),
                   ![kind].wg = @ + 1,
                   ![kind].next = @ + 1]
    /\ UNCHANGED <<runVars, docker, retry, configCheck, apply, stateCheck>>

\* a goroutine of the loop calls RemoveContainer / RemoveImageExtended with
\* Force; with removeErr = nil it is finished (deferred wg.Done)
workerRemove(kind) ==
    /\ \E w \in DOMAIN prune[kind].workers :
         LET id == workerTarget(prune[kind], w)
             call(ok) == [kind |-> kind, worker |-> w, ID |-> id, ok |-> ok]
         IN  /\ prune[kind].workers[w].pc = "go"
             /\ \/ /\ ResourceByID(docker, id).exists
                   /\ docker' = [docker EXCEPT !.resources =
                                    (@ \ {ResourceByID(docker, id)})
                                    \cup {[ResourceByID(docker, id) EXCEPT !.exists = FALSE]}]
                   /\ prune' = [prune EXCEPT ![kind].workers[w].pc = "done",
                                             ![kind].wg = @ - 1,
                                             !.removals = @ \cup {call(TRUE)}]
                \/ /\ UNCHANGED docker
                   /\ prune' = [prune EXCEPT ![kind].workers[w].pc = "mu.Lock",
                                             !.removals = @ \cup {call(FALSE)}]
    /\ UNCHANGED <<runVars, retry, configCheck, apply, stateCheck>>

\* a goroutine of the loop whose removal failed: mu.Lock()
workerLock(kind) ==
    /\ \E w \in DOMAIN prune[kind].workers :
         /\ prune[kind].workers[w].pc = "mu.Lock"
         /\ MayLock(prune[kind].mu)
         /\ prune' = [prune EXCEPT ![kind].workers[w].pc = "errors.Join", ![kind].mu = w]
    /\ UNCHANGED <<runVars, docker, retry, configCheck, apply, stateCheck>>

\* a goroutine of the loop past mu.Lock(): the join into err, mu.Unlock() and
\* the deferred wg.Done
workerJoin(kind) ==
    /\ \E w \in DOMAIN prune[kind].workers :
         /\ prune[kind].workers[w].pc = "errors.Join"
         /\ prune' = [prune EXCEPT
                        ![kind].workers[w].pc = "done",
                        ![kind].err = Join(@, RemoveErr(kind, workerTarget(prune[kind], w))),
                        ![kind].mu = Unlocked,
                        ![kind].wg = @ - 1]
    /\ UNCHANGED <<runVars, docker, retry, configCheck, apply, stateCheck>>

\* pruneContainers / pruneImages after the loop: wg.Wait() and the return
sweepWait(kind) ==
    /\ prune[kind].pc = "loop"
    /\ prune[kind].next > Len(prune[kind].listed)
    /\ prune[kind].wg = 0
    /\ prune' = [prune EXCEPT ![kind].pc = "returned",
                              ![kind].ret = pruneLoopReturn(prune[kind].err)]
    /\ UNCHANGED <<runVars, docker, retry, configCheck, apply, stateCheck>>

\* the goroutine of Prune after its pass returned removeErr = nil: wg.Done
sweepDone(kind) ==
    /\ prune[kind].pc = "returned"
    /\ IsNil(prune[kind].ret)
    /\ prune' = [prune EXCEPT ![kind].pc = "done", !.wg = @ - 1]
    /\ UNCHANGED <<runVars, docker, retry, configCheck, apply, stateCheck>>

\* the goroutine of Prune after its pass returned removeErr # nil: mu.Lock()
sweepLock(kind) ==
    /\ prune[kind].pc = "returned"
    /\ ~IsNil(prune[kind].ret)
    /\ MayLock(prune.mu)
    /\ prune' = [prune EXCEPT ![kind].pc = "errors.Join", !.mu = GoID(kind)]
    /\ UNCHANGED <<runVars, docker, retry, configCheck, apply, stateCheck>>

\* the goroutine of Prune past mu.Lock(): the join into err, mu.Unlock() and
\* the deferred wg.Done
sweepJoin(kind) ==
    /\ prune[kind].pc = "errors.Join"
    /\ LET prefix == IF kind = "container" THEN "failed to pruneContainers"
                     ELSE "failed to pruneImages"
       IN  prune' = [prune EXCEPT ![kind].pc = "done",
                                  !.err = Join(@, Wrap(prefix, prune[kind].ret)),
                                  !.mu = Unlocked,
                                  !.wg = @ - 1]
    /\ UNCHANGED <<runVars, docker, retry, configCheck, apply, stateCheck>>

\* Prune: wg.Wait() and the return
pruneWgWait ==
    /\ prune.pc = "wg.Wait"
    /\ prune.wg = 0
    /\ prune' = [prune EXCEPT !.pc = "done", !.ret = pruneReturn(prune.err)]
    /\ UNCHANGED <<runVars, docker, retry, configCheck, apply, stateCheck>>

NextFanOut ==
    \/ goPrune
    \/ \E kind \in Sweeps : goList(kind)
    \/ \E kind \in Sweeps : goWorker(kind)
    \/ \E kind \in Sweeps : workerRemove(kind)
    \/ \E kind \in Sweeps : workerLock(kind)
    \/ \E kind \in Sweeps : workerJoin(kind)
    \/ \E kind \in Sweeps : sweepWait(kind)
    \/ \E kind \in Sweeps : sweepDone(kind)
    \/ \E kind \in Sweeps : sweepLock(kind)
    \/ \E kind \in Sweeps : sweepJoin(kind)
    \/ pruneWgWait

SpecFanOut == InitFanOut /\ [][NextFanOut]_vars

-----------------------------------------------------------------------------
(* Reading the call history *)

Issued(op) == \E i \in 1..Len(calls) : calls[i].op = op

Count(op) == Cardinality({ i \in 1..Len(calls) : calls[i].op = op })

IsLookup(c) == c.op = "ContainerByName"

Lookups == SelectSeq(calls, IsLookup)

\* the first lookup of the reuse flow found a container
HasFirst == Lookups # <<>> /\ Lookups[1].ret = "ok"

\* the snapshot the first lookup returned
FirstSeen ==
    IF HasFirst
    THEN Container(Lookups[1].id, Lookups[1].state, ExistingImage,
                   ExistingExposedPorts, ExistingPortBindings)
    ELSE NilContainer

\* the snapshot the latest lookup returned
LastSeen ==
    IF Lookups # <<>> /\ Lookups[Len(Lookups)].ret = "ok"
    THEN Container(Lookups[Len(Lookups)].id, Lookups[Len(Lookups)].state, ExistingImage,
                   ExistingExposedPorts, ExistingPortBindings)
    ELSE NilContainer

ImageDiffers == FirstSeen.Image # options.Repository \o ":" \o options.Tag

\* every predicate of options.Reuse.ConfigChecks accepts the existing container
ConfigCompatible ==
    /\ ExistingImage = options.Repository \o ":" \o options.Tag
    /\ SeqRange(options.ExposedPorts) \subseteq ExistingExposedPorts
    /\ \A port \in DOMAIN options.PortBindings :
          /\ port \in DOMAIN ExistingPortBindings
          /\ SeqRange(options.PortBindings[port]) \subseteq SeqRange(ExistingPortBindings[port])

Returned == pc = "done"

ReturnedOk == pc = "done" /\ IsNil(runErr)

\* reuseContainer returned the container without error
ReuseReturnedOk == path = "reuse" /\ pc \in {"expire", "probe", "probeWait", "done"}
                   /\ container # NilContainer

-----------------------------------------------------------------------------
(* Claims *)

\* C1 (as claimed): with Reuse=true, RecreateOnErr=false and an existing
\* container whose image:tag differs from the request, whatever state the first
\* lookup shows (Running, Paused, Exited, Restarting), Run issues no
\* UnpauseContainer, StartContainer, RemoveContainerByName or Purge.
C1_NoCallOnImageConflict ==
    ( /\ HasFirst
      /\ options.Reuse.Reuse /\ ~options.Reuse.RecreateOnErr
      /\ ImageDiffers
      /\ FirstSeen.State \in {StRunning, StPaused, StExited, StRestarting} )
    => /\ ~Issued("UnpauseContainer")
       /\ ~Issued("StartContainer")
       /\ ~Issued("RemoveContainerByName")
       /\ ~Issued("Purge")

\* C2: with Reuse=true on a name collision, when the first lookup shows the
\* existing container Running and every config check passes, Run issues no
\* UnpauseContainer, StartContainer, RemoveContainerByName or second create,
\* reuseContainer returns at once with the container of that lookup, and a
\* successful Run returns the existing container's ID.
C2_RunningCompatibleIsReused ==
    ( /\ HasFirst
      /\ FirstSeen.State = StRunning
      /\ ConfigCompatible )
    => /\ ~Issued("UnpauseContainer")
       /\ ~Issued("StartContainer")
       /\ ~Issued("RemoveContainerByName")
       /\ Count("RunWithOptions") = 1
       /\ Len(Lookups) = 1
       /\ ReuseReturnedOk
       /\ container.ID = FirstSeen.ID
       /\ ReturnedOk => result.ID = ExistingID

C2_Witness ==
    /\ ReturnedOk
    /\ path = "reuse"
    /\ HasFirst /\ FirstSeen.State = StRunning /\ ConfigCompatible
    /\ result.ID = ExistingID


\* a lookup that shows the container Running and acceptable is the last lookup
\* of the reuse flow: reuseContainer returns on it
ReadyLookupIsLast ==
    \A i \in 1..Len(Lookups) :
        (Lookups[i].ret = "ok" /\ Lookups[i].state = StRunning /\ ConfigCompatible)
        => i = Len(Lookups)

\* C3: with Reuse=true on a name collision with a Paused, config-compatible
\* container, Run issues UnpauseContainer exactly once (in repairForReuse, before
\* the backoff loop) and StartContainer never, then only polls, and reuseContainer
\* returns the existing container's ID on the first lookup that reports Running.
C3_PausedUnpausedOnce ==
    ( /\ HasFirst
      /\ FirstSeen.State.Paused
      /\ ConfigCompatible )
    => /\ Count("UnpauseContainer") = (IF pc = "repairForReuse" THEN 0 ELSE 1)
       /\ ~Issued("StartContainer")
       /\ \A i \in 1..Len(calls) :
             calls[i].op = "UnpauseContainer" => (i = 3 /\ calls[i].id = ExistingID)
       /\ ReadyLookupIsLast
       /\ ReuseReturnedOk =>
             /\ container.ID = ExistingID
             /\ LastSeen.State = StRunning
             /\ Len(Lookups) >= 2
       /\ (ReturnedOk /\ path = "reuse") => result.ID = ExistingID

C3_Witness ==
    /\ ReturnedOk
    /\ path = "reuse"
    /\ HasFirst /\ FirstSeen.State.Paused /\ ConfigCompatible
    /\ Count("UnpauseContainer") = 1
    /\ reuseTries >= 2
    /\ result.ID = ExistingID

\* C4: with Reuse=true on a name collision with an Exited, config-compatible
\* container, Run issues StartContainer exactly once (in repairForReuse, before
\* the backoff loop) and UnpauseContainer never, then only polls, and
\* reuseContainer returns the existing container's ID on the first lookup that
\* reports Running.
C4_ExitedStartedOnce ==
    ( /\ HasFirst
      /\ FirstSeen.State.Status = "exited" /\ ~FirstSeen.State.Paused
      /\ ConfigCompatible )
    => /\ Count("StartContainer") = (IF pc = "repairForReuse" THEN 0 ELSE 1)
       /\ ~Issued("UnpauseContainer")
       /\ \A i \in 1..Len(calls) :
             calls[i].op = "StartContainer" => (i = 3 /\ calls[i].id = ExistingID)
       /\ ReadyLookupIsLast
       /\ ReuseReturnedOk =>
             /\ container.ID = ExistingID
             /\ LastSeen.State = StRunning
             /\ Len(Lookups) >= 2
       /\ (ReturnedOk /\ path = "reuse") => result.ID = ExistingID

C4_Witness ==
    /\ ReturnedOk
    /\ path = "reuse"
    /\ HasFirst /\ FirstSeen.State = StExited /\ ConfigCompatible
    /\ Count("StartContainer") = 1
    /\ reuseTries >= 2
    /\ result.ID = ExistingID

\* C5 (as claimed): with Reuse=true and RecreateOnErr=false, when the first
\* lookup shows the existing container OOMKilled, Dead or RemovalInProgress, Run
\* returns an error matching ErrUnreusableState after exactly one lookup, with no
\* corrective call and without entering the backoff loop.
C5_UnusableFailsAtFirstLookup ==
    ( /\ HasFirst
      /\ options.Reuse.Reuse /\ ~options.Reuse.RecreateOnErr
      /\ \/ FirstSeen.State.OOMKilled
         \/ FirstSeen.State.Dead
         \/ FirstSeen.State.RemovalInProgress )
    => /\ Returned
       /\ ErrorsIs(runErr, ErrUnreusableState)
       /\ Len(Lookups) = 1
       /\ reuseTries = 0
       /\ ~Issued("UnpauseContainer")
       /\ ~Issued("StartContainer")


\* the error Run returned reports a failure of reuseContainer
ReportsReuseFailure == "failed to reuseContainer" \in SeqRange(runErr.msg)

\* the index of the first call of op in the history, 0 when there is none
IndexOf(op) ==
    IF Issued(op) THEN CHOOSE i \in 1..Len(calls) :
                          /\ calls[i].op = op
                          /\ \A j \in 1..(i - 1) : calls[j].op # op
    ELSE 0

\* C6: whenever reuseContainer fails and RecreateOnErr=true, whatever the cause,
\* Run goes on to recreateContainer: it calls RemoveContainerByName once, after
\* every lookup and corrective call, creates a second time only right after a
\* successful removal, and on success returns a handle whose ID differs from the
\* old container's ID.
C6_RecreateAfterAnyReuseFailure ==
    /\ (options.Reuse.RecreateOnErr /\ Returned /\ ReportsReuseFailure)
          => path = "RecreateOnErr"
    /\ path = "RecreateOnErr" =>
          /\ ~IsNil(err)
          /\ Count("RemoveContainerByName") = (IF pc = "recreateContainer" THEN 0 ELSE 1)
          /\ \A i \in 1..Len(calls) :
                calls[i].op \in {"ContainerByName", "UnpauseContainer", "StartContainer"}
                => (~Issued("RemoveContainerByName") \/ i < IndexOf("RemoveContainerByName"))
          /\ \A i \in 2..Len(calls) :
                calls[i].op = "RunWithOptions"
                => (calls[i - 1].op = "RemoveContainerByName" /\ calls[i - 1].ret = "ok")
          /\ pc \in {"expire", "probe", "probeWait"} => container.ID # ExistingID
          /\ ReturnedOk =>
                /\ Count("RunWithOptions") = 2
                /\ result.ID # ExistingID
                /\ result.ID # 0

C6_Witness ==
    /\ ReturnedOk
    /\ path = "RecreateOnErr"
    /\ ErrorsIs(err, ErrReuseContainerConflict)
    /\ ImageDiffers
    /\ Issued("RemoveContainerByName")
    /\ result.ID = ExistingID + 1

\* C7 (as claimed): when RecreateOnErr=true and both the reuse attempt and the
\* following recreation fail, the returned error matches the original reuse
\* failure and the recreation failure (the error of RemoveContainerByName or of
\* the second create).
C7_JoinedErrorMatchesBoth ==
    ( /\ Returned /\ ~IsNil(runErr)
      /\ path = "RecreateOnErr"
      /\ runErr.msg[1] = "failed to initContainer" )
    => /\ err.is \subseteq runErr.is
       /\ calls[Len(calls)].op = "RemoveContainerByName"
             => ErrorsIs(runErr, "RemoveContainerByName error")
       /\ calls[Len(calls)].op = "RunWithOptions"
             => ErrorsIs(runErr, "RunWithOptions error")

\* C8: for every request with Reuse=false and RemoveOnExists=false whose create
\* call reports a name collision, Run returns a nil container and an error
\* matching ErrContainerAlreadyExists, and issues no lookup, unpause, start,
\* remove, expire or purge call: the create call is the only call.
C8_CollisionWithoutPolicyFails ==
    ( /\ ~options.Reuse.Reuse /\ ~options.RemoveOnExists
      /\ calls # <<>>
      /\ calls[1].ret = ErrContainerAlreadyExists )
    => /\ Returned
       /\ ErrorsIs(runErr, ErrContainerAlreadyExists)
       /\ result = NilContainer
       /\ Len(calls) = 1

C8_Witness ==
    /\ Returned
    /\ ~options.Reuse.Reuse /\ ~options.RemoveOnExists
    /\ Len(calls) = 1 /\ calls[1].ret = ErrContainerAlreadyExists
    /\ ErrorsIs(runErr, ErrContainerAlreadyExists)
    /\ daemon.exists /\ daemon.ID = ExistingID

\* C9: with RemoveOnExists=true on a name collision, Run calls
\* RemoveContainerByName and then creates again, without any lookup or corrective
\* call, and on success returns a handle whose ID differs from the old
\* container's ID.
C9_RemoveOnExistsRecreates ==
    ( /\ options.RemoveOnExists
      /\ calls # <<>>
      /\ calls[1].ret = ErrContainerAlreadyExists )
    => /\ path = "RemoveOnExists"
       /\ ~Issued("ContainerByName")
       /\ ~Issued("UnpauseContainer")
       /\ ~Issued("StartContainer")
       /\ Len(calls) >= 2 => calls[2].op = "RemoveContainerByName"
       /\ Len(calls) >= 3 =>
             (calls[2].ret = "ok" /\ calls[3].op = "RunWithOptions")
       /\ Count("RemoveContainerByName") <= 1
       /\ Count("RunWithOptions") <= 2
       /\ pc # "recreateContainer" => Len(calls) >= 2
       /\ ReturnedOk =>
             /\ Len(calls) >= 3
             /\ calls[3].ret = "ok"
             /\ result.ID # ExistingID
             /\ result.ID # 0

C9_Witness ==
    /\ ReturnedOk
    /\ options.RemoveOnExists
    /\ calls[1].ret = ErrContainerAlreadyExists
    /\ calls[2].op = "RemoveContainerByName"
    /\ result.ID = ExistingID + 1

\* the readiness-probe loop gave up on the backoff budget: run returns the
\* error of the last attempt, neither a permanent error nor the context's
ProbeBudgetExhausted ==
    /\ Returned
    /\ ~IsNil(runErr)
    /\ runErr.msg[1] = "failed to retry"
    /\ ErrorsIs(runErr, "operation error")

\* C10 (as claimed): when the readiness-probe loop gives up because the backoff
\* budget is exhausted before the probe ever succeeded, Run purges the container
\* and returns an error matching ErrRetryTimeout.
C10_ProbeTimeoutIsErrRetryTimeout ==
    ProbeBudgetExhausted
    => /\ calls[Len(calls)].op = "Purge"
       /\ calls[Len(calls)].id = container.ID
       /\ ErrorsIs(runErr, ErrRetryTimeout)

-----------------------------------------------------------------------------
(* C11 *)

\* Run obtained a container and got past the expiry registration
ExpireFailed == \E i \in 1..Len(calls) : calls[i].op = "Expire" /\ calls[i].ret = "error"

ProbeLoopLeft ==
    /\ pc = "done"
    /\ options.Retry.Operation
    /\ container # NilContainer
    /\ ~ExpireFailed

-----------------------------------------------------------------------------
(* C20 *)

\* Pool.run returned an error after initContainer had returned a container
FailedWithContainer == pc = "done" /\ ~IsNil(runErr) /\ container # NilContainer

\* C20: when Pool.run returns an error after it obtained a container (the
\* expiry registration or the readiness probe failed), its last call before
\* returning was the one Purge of that container; when it returns success it
\* has called no Purge.
C20_PurgeOnErrorOnly ==
    /\ FailedWithContainer =>
          /\ Count("Purge") = 1
          /\ calls[Len(calls)].op = "Purge"
          /\ calls[Len(calls)].id = container.ID
          /\ ExpireFailed \/ Issued("Operation")
    /\ ReturnedOk => Count("Purge") = 0

\* the readiness probe failed on a created container, which was purged
C20_Witness ==
    /\ FailedWithContainer
    /\ path = "created"
    /\ Issued("Operation")
    /\ calls[Len(calls)].op = "Purge"
    /\ ~daemon.exists

-----------------------------------------------------------------------------
(* C18, C19 *)

\* the options as the custom options of the call about to start leave them
Applied == applyCustomOpts(customOpts, getDefault(repository))

\* every custom option returned nil and both collision policies are set
LeavesBothSet ==
    /\ IsNil(Applied.err)
    /\ Applied.options.Reuse.Reuse
    /\ Applied.options.RemoveOnExists

\* Run holds RunOptions with both collision policies set
BothFlags == options.Reuse.Reuse /\ options.RemoveOnExists

\* C18 as stated: for every option sequence that leaves Reuse.Reuse and
\* RemoveOnExists both set, Run returns the error of ApplyRunOptions and it
\* matches ErrOptionConflict; nothing past ApplyRunOptions sees both flags set.
C18_BothFlagsIsErrOptionConflict ==
    [][ /\ (pc = "Run" /\ LeavesBothSet) =>
              (pc' = "done" /\ ErrorsIs(runErr', ErrOptionConflict))
        /\ pc' # "Run" => ~BothFlags' ]_vars

\* C18 amended: for every option sequence that leaves both flags set Run
\* returns the error of ApplyRunOptions, which matches ErrOptionConflict when
\* the repository is not empty and ErrInvalidOptions when it is empty; nothing
\* past ApplyRunOptions sees both flags set.
C18_BothFlagsRejected ==
    [][ /\ (pc = "Run" /\ LeavesBothSet) =>
              /\ pc' = "done"
              /\ repository # "" => ErrorsIs(runErr', ErrOptionConflict)
              /\ repository = "" => ErrorsIs(runErr', ErrInvalidOptions)
        /\ pc' # "Run" => ~BothFlags' ]_vars

\* Run returned ErrOptionConflict for an option sequence setting both flags
C18_Witness ==
    /\ pc = "done"
    /\ path = "none"
    /\ ErrorsIs(runErr, ErrOptionConflict)
    /\ runErr.msg[1] = "failed to applyTestContainerOptions"

\* C19: when a custom option returns an error, the repository is empty or the
\* options leave both collision policies set, Run returns at once an error that
\* matches the failure, with a nil container, having issued no call to the
\* daemon, the expiry or the probe.
C19_OptionFailureIssuesNoCall ==
    [][ (/\ pc = "Run"
         /\ \/ ~IsNil(Applied.err)
            \/ Applied.options.Repository = ""
            \/ LeavesBothSet) =>
           /\ pc' = "done"
           /\ result' = NilContainer
           /\ calls' = <<>>
           /\ daemon' = daemon
           /\ runErr'.msg[1] = "failed to applyTestContainerOptions"
           /\ ~IsNil(Applied.err) => runErr' = Wrap("failed to applyTestContainerOptions", Applied.err)
           /\ (IsNil(Applied.err) /\ Applied.options.Repository = "") =>
                  ErrorsIs(runErr', ErrInvalidOptions)
           /\ (LeavesBothSet /\ Applied.options.Repository # "") =>
                  ErrorsIs(runErr', ErrOptionConflict) ]_vars

\* Run returned the error of a custom option and called nothing
C19_Witness ==
    /\ pc = "done"
    /\ runErr = Wrap("failed to applyTestContainerOptions", NewErr("option error"))
    /\ result = NilContainer
    /\ calls = <<>>
    /\ daemon.exists

-----------------------------------------------------------------------------
(* C17 *)

\* one of the predicates of options.Reuse.ConfigChecks rejects the existing
\* container: the default check on an incompatible request, or the caller's
FailingCheckConfigured ==
    \E i \in 1..Len(options.Reuse.ConfigChecks) :
        \/ options.Reuse.ConfigChecks[i] = "failing check"
        \/ options.Reuse.ConfigChecks[i] = "defaultContainerConfigCheck" /\ ~ConfigCompatible

\* the first lookup of the reuse flow showed a Running container that a
\* predicate of ConfigChecks rejects, and RecreateOnErr is not set
RunningRejected ==
    /\ path = "reuse"
    /\ HasFirst
    /\ FirstSeen.State = StRunning
    /\ FailingCheckConfigured
    /\ ~options.Reuse.RecreateOnErr

\* C17: with RecreateOnErr=false, a failure of any predicate of
\* Reuse.ConfigChecks (the default one or the caller's) on a container the first
\* lookup shows Running makes Run return, from that first attempt, an error
\* matching ErrReuseContainerConflict: one lookup, no attempt of the backoff
\* loop, no corrective action, no removal, no second create.
C17_ConfigCheckFailureIsConflict ==
    RunningRejected =>
        /\ pc = "done"
        /\ result = NilContainer
        /\ ErrorsIs(runErr, ErrReuseContainerConflict)
        /\ Len(Lookups) = 1
        /\ reuseTries = 0
        /\ ~Issued("UnpauseContainer") /\ ~Issued("StartContainer")
        /\ ~Issued("RemoveContainerByName")
        /\ Count("RunWithOptions") = 1

\* the caller's predicate rejected a container the default check accepts
C17_Witness ==
    /\ RunningRejected
    /\ ConfigCompatible
    /\ options.Reuse.ConfigChecks = <<"defaultContainerConfigCheck", "failing check">>
    /\ pc = "done"
    /\ ErrorsIs(runErr, ErrReuseContainerConflict)
    /\ ErrorsIs(runErr, "caller check error")

-----------------------------------------------------------------------------
(* C14 *)

\* the calls this step appends to the call history
NewCalls == { calls'[i] : i \in (Len(calls) + 1)..Len(calls') }

\* C14: whenever the lookup by name of the reuse flow or the removal by name of
\* the recreate flow selects a container of the daemon, that container carries
\* the tcontainer label.
C14_OnlyLabelledSelected ==
    [][ \A c \in NewCalls :
            (c.op \in {"ContainerByName", "RemoveContainerByName"} /\ daemon.exists) =>
                DefaultLabelKeyValue \in daemon.Labels ]_vars

-----------------------------------------------------------------------------
(* C12, C13 *)

Kinds == {"container", "image"}

\* the leaf errors of everything that failed during the two passes of Prune:
\* failed removals, a failed listing, a failed option
PruneFailures ==
    UNION { prune[kind].err.is \cup prune[kind].ret.is : kind \in Kinds }

\* a removal was issued for every resource a listing returned
EveryListedAttempted ==
    \A kind \in Kinds : \A id \in prune[kind].listed :
        \E r \in prune.removals : r.kind = kind /\ r.ID = id

\* C12: when Prune has returned, a removal was attempted for every listed
\* resource whatever failed for the others, the returned error is non-nil and
\* matches every failure (failed removals, a failed listing) if there was one,
\* and it is nil only if nothing failed.
C12_PruneAggregatesFailures ==
    prune.pc = "done" =>
        /\ EveryListedAttempted
        /\ PruneFailures # {} =>
              /\ ~IsNil(prune.ret)
              /\ \A leaf \in PruneFailures : ErrorsIs(prune.ret, leaf)
        /\ PruneFailures = {} => IsNil(prune.ret)

Labelled(r) == DefaultLabelKeyValue \in r.Labels

\* C13: Prune called without custom options issues removals only for the IDs
\* its listings returned, the listings return only resources that carry the
\* label tcontainer=tcontainer, and every resource without the label, also one
\* created while Prune runs, is still there.
C13_OnlyLabelledRemoved ==
    prune.customOptions = <<>> =>
        /\ \A kind \in Kinds : \A id \in prune[kind].listed :
              /\ Labelled(ResourceByID(docker, id))
              /\ ResourceByID(docker, id).kind = kind
        /\ \A r \in prune.removals : r.ID \in prune[r.kind].listed
        /\ \A r \in docker.resources : ~Labelled(r) => r.exists

\* Prune has removed a labelled container and a labelled image while an
\* unlabelled container of before and an unlabelled resource created during the
\* sweep are still there
C13_Witness ==
    /\ prune.pc = "done"
    /\ prune.customOptions = <<>>
    /\ [kind |-> "container", ID |-> 1, ok |-> TRUE] \in prune.removals
    /\ [kind |-> "image", ID |-> 4, ok |-> TRUE] \in prune.removals
    /\ Resource("container", 3, {}) \in docker.resources
    /\ \E r \in docker.resources : r.ID >= FirstFreeID /\ ~Labelled(r) /\ r.exists

-----------------------------------------------------------------------------
(* C15 *)

\* Retry has returned and the last attempt of the operation failed
RetryStoppedFailed ==
    /\ retry.pc = "done"
    /\ retry.attempts # <<>>
    /\ ~IsNil(retry.attempts[Len(retry.attempts)])

\* C15: when Retry stops after two or more attempts, the last of which failed,
\* the error it returns matches the error of the last attempt and the error of
\* the attempt before it; when it stops after a single failed attempt it
\* returns the error of that attempt alone.
C15_ReturnsFinalAndPrevious ==
    RetryStoppedFailed =>
        LET n == Len(retry.attempts)
        IN  /\ n >= 2 =>
                 /\ retry.attempts[n].is \subseteq retry.ret.is
                 /\ retry.attempts[n - 1].is \subseteq retry.ret.is
            /\ n = 1 => retry.ret.is = retry.attempts[1].is

-----------------------------------------------------------------------------
(* C16 *)

CheckDone == configCheck.pc = "done"

CheckAccepts == IsNil(configCheck.err)

\* (a) the existing image equals Repository:Tag
SameImage ==
    configCheck.container.Image =
        configCheck.expectedOptions.Repository \o ":" \o configCheck.expectedOptions.Tag

\* (b) every exposed port of the request is exposed by the existing container
ExposedCovered ==
    SeqRange(configCheck.expectedOptions.ExposedPorts) \subseteq configCheck.container.ExposedPorts

\* the bindings the existing container has for a container port
ExistingBindings(port) ==
    IF port \in DOMAIN configCheck.container.PortBindings
    THEN SeqRange(configCheck.container.PortBindings[port])
    ELSE {}

\* (c) every binding of the request has an equal binding of the existing
\* container for the same container port
BindingsCovered ==
    \A port \in DOMAIN configCheck.expectedOptions.PortBindings :
        SeqRange(configCheck.expectedOptions.PortBindings[port]) \subseteq ExistingBindings(port)

\* every container port the request has a binding entry for, also one with an
\* empty list, has an entry in the existing container
BoundPortsPresent ==
    DOMAIN configCheck.expectedOptions.PortBindings \subseteq DOMAIN configCheck.container.PortBindings

\* C16 as stated: defaultContainerConfigCheck accepts exactly when (a), (b) and
\* (c) hold.
C16_AcceptsIffCompatible ==
    CheckDone => (CheckAccepts <=> (SameImage /\ ExposedCovered /\ BindingsCovered))

\* C16 amended: defaultContainerConfigCheck accepts exactly when (a), (b) and
\* (c) hold and the existing container has a port-binding entry for every
\* container port the request names in its port bindings, also for one the
\* request maps to an empty list; nothing else (extra exposed ports or bindings
\* of the existing container, Env, Cmd) has a say.
C16_AcceptsIffCompatibleAndPortsPresent ==
    CheckDone =>
        (CheckAccepts <=> (SameImage /\ ExposedCovered /\ BindingsCovered /\ BoundPortsPresent))

\* accepted although the existing container exposes and binds more than the
\* request asks for and the request has another Env
C16_Witness ==
    /\ CheckDone
    /\ CheckAccepts
    /\ configCheck.container.ExposedPorts = {"80", "9999"}
    /\ configCheck.expectedOptions.ExposedPorts = <<"80">>
    /\ configCheck.expectedOptions.PortBindings = ("80" :> <<Binding("", "8081")>>)
    /\ configCheck.container.PortBindings =
          ("80" :> <<Binding("", "8080"), Binding("", "8081")>>) @@ ("9999" :> <<Binding("", "9999")>>)
    /\ configCheck.expectedOptions.Env # configCheck.container.Env

-----------------------------------------------------------------------------
(* C21 *)

ContextCanceled == "context canceled"

\* ctx was cancelled while backoff.Retry waits between two attempts: an attempt
\* that sees a cancelled context returns and never starts the wait
CancelledWhileWaiting == pc \in {"RetryWait", "probeWait"} /\ ctxDone

\* C21 (as claimed): if ctx is cancelled while Run waits between attempts of
\* the reuse loop or of the readiness-probe loop, the loop makes no further
\* attempt and Run returns an error matching the context's cancellation error
\* (which the error of an exhausted backoff, the last attempt's, does not match).
C21_CancelledWaitReturnsContextError ==
    /\ [][CancelledWhileWaiting => pc' \notin {"Retry", "probe"}]_vars
    /\ [](CancelledWhileWaiting => [](Returned => ErrorsIs(runErr, ContextCanceled)))

-----------------------------------------------------------------------------
(* C22 *)

\* applyTestContainerOptions returned the options without error
ApplyReturnedOk == apply.pc = "done" /\ IsNil(apply.err)

\* the last option of the kind given to applyTestContainerOptions
LastGiven(kind) ==
    LET given == apply.customOpts
        i == CHOOSE k \in 1..Len(given) :
                 /\ given[k].fn = kind
                 /\ \A j \in (k + 1)..Len(given) : given[j].fn # kind
    IN  given[i]

\* what the option sets when it is the only option given
SetAlone(opt) == rangeCustomOpts(<<opt>>, testContainerOptions(apply.repository)).opts

\* the fields the options of the kind write have the same values in a and b
SameFields(kind, a, b) ==
    CASE kind = "WithImageTag" -> a.imageTag = b.imageTag
      [] kind = "WithRetry" ->
           a.retryOperation = b.retryOperation /\ a.retryTimeout = b.retryTimeout
      [] kind = "WithExpiry" -> a.containerExpiry = b.containerExpiry
      [] kind = "WithAutoremove" -> a.autoremoveContainer = b.autoremoveContainer
      [] kind = "WithReuseContainer" ->
           /\ a.reuseContainer = b.reuseContainer
           /\ a.reuseContainerTimeout = b.reuseContainerTimeout
           /\ a.reuseContainerRecreateOnErr = b.reuseContainerRecreateOnErr
      [] OTHER -> a.removeContainerOnExists = b.removeContainerOnExists

\* C22 (as claimed): options are applied in the order passed and each option
\* rewrites the value earlier options set for the same fields, so in the options
\* applyTestContainerOptions returns, the fields of every kind of option hold
\* what the last option of that kind sets: WithReuseContainer(true, ..) followed
\* by WithReuseContainer(false, ..) leaves reuse off, WithRetry(op, t) followed
\* by WithRetry(op, 0) leaves the default timeout.
C22_LastOptionWins ==
    ApplyReturnedOk =>
       \A kind \in { apply.customOpts[i].fn : i \in 1..Len(apply.customOpts) } :
           SameFields(kind, apply.opts, SetAlone(LastGiven(kind)))

-----------------------------------------------------------------------------
(* C23 *)

\* the verdict of a check: the pair is accepted or rejected
Accepts(e) == IsNil(e)

-----------------------------------------------------------------------------
(* C24 *)

\* checkContainerState was called on the snapshot
StateChecked == stateCheck.pc \in {"repairForReuse", "done"}

\* the snapshot has OOMKilled, Dead or RemovalInProgress set
UnusableSnapshot ==
    \/ stateCheck.container.State.OOMKilled
    \/ stateCheck.container.State.Dead
    \/ stateCheck.container.State.RemovalInProgress

\* C24 (as claimed): checkContainerState classifies every snapshot in which
\* OOMKilled, Dead or RemovalInProgress is set as unusable, an error matching
\* ErrUnreusableState, whatever Running, Paused, Restarting and Status are: the
\* snapshot is never ready (nil) or recoverable (an error try() retries), and
\* repairForReuse issues no corrective call for it.
C24_UnusableFlagsAreUnusable ==
    /\ (StateChecked /\ UnusableSnapshot) => ErrorsIs(stateCheck.err, ErrUnreusableState)
    /\ (stateCheck.pc = "done" /\ UnusableSnapshot)
          => stateCheck.repair \notin {"UnpauseContainer", "StartContainer"}

-----------------------------------------------------------------------------
(* C25 *)

\* a lifecycle state none of the cases of checkContainerState names
Unexpected(st) ==
    /\ ~st.Running /\ ~st.Paused /\ ~st.Restarting
    /\ st.Status # "exited"
    /\ ~st.OOMKilled /\ ~st.Dead /\ ~st.RemovalInProgress

\* the first check of reuseContainer found the container in an unexpected state
UnexpectedAtFirstCheck == HasFirst /\ Unexpected(FirstSeen.State)

\* C25 (as claimed): a container found in an unexpected lifecycle state is a
\* transient failure also when the first check sees it: reuseContainer goes on
\* to poll it under the reuse backoff, and leaves the reuse flow only after at
\* least one poll of the loop (ready, permanent failure, budget exhausted).
C25_UnexpectedStateIsRepolled ==
    (UnexpectedAtFirstCheck /\ pc # "repairForReuse")
    => (pc \in {"Retry", "RetryWait"} \/ reuseTries >= 1)

-----------------------------------------------------------------------------
(* C26 *)

\* the positions of Run inside reuseContainer
ReuseFlow == {"reuseContainer", "repairForReuse", "Retry", "RetryWait"}

\* the attempt reuseContainer is about to make (the first try or one of the
\* backoff loop) ends with lookup-not-found, an unusable state or a failed
\* config check
AttemptEndsForGood ==
    /\ pc \in {"reuseContainer", "Retry"}
    /\ LET e == try(daemon, options).err
       IN  \/ ErrorsIs(e, "failed to p.ContainerByName")
           \/ ErrorsIs(e, ErrUnreusableState)
           \/ ErrorsIs(e, ErrReuseContainerConflict)

\* C26: an attempt of reuseContainer, the first or one inside the backoff loop,
\* that ends with lookup-not-found, an unusable state or a failed config check
\* ends the reuse flow at once, whatever is left of the backoff budget, and once
\* the reuse flow is left no lookup and no corrective call follows.
C26_PermanentFailureEndsReuse ==
    /\ [][(AttemptEndsForGood /\ pc' # pc) => pc' \notin ReuseFlow]_vars
    /\ [][pc \notin ReuseFlow =>
            /\ pc' \notin ReuseFlow \ {"reuseContainer"}
            /\ \A i \in (Len(calls) + 1)..Len(calls') :
                  calls'[i].op \notin {"ContainerByName", "UnpauseContainer", "StartContainer"}]_vars

\* the second attempt, inside the backoff loop with budget left, found the
\* unpaused container running with another image: Run returned the conflict
C26_Witness ==
    /\ Returned
    /\ path = "reuse"
    /\ ErrorsIs(runErr, ErrReuseContainerConflict)
    /\ reuseTries = 1
    /\ reuseTries < MaxReuseTries
    /\ Len(Lookups) = 2
    /\ calls[Len(calls)].op = "ContainerByName"
    /\ Count("UnpauseContainer") = 1

-----------------------------------------------------------------------------
(* C27 *)

IsCorrective(c) == c.op \in {"UnpauseContainer", "StartContainer"}

\* the corrective calls of the history
Correctives == SelectSeq(calls, IsCorrective)

\* C27: reuseContainer issues at most one corrective daemon call; it is chosen
\* from the snapshot of the first attempt (UnpauseContainer for Paused,
\* StartContainer for exited), names that container, and is issued right after
\* the first lookup, before the backoff loop: whatever later lookups report, no
\* further unpause or start follows.
C27_OneCorrectiveFromFirstSnapshot ==
    /\ Len(Correctives) <= 1
    /\ pc \in {"reuseContainer", "repairForReuse"} => Correctives = <<>>
    /\ \A i \in 1..Len(calls) :
          IsCorrective(calls[i]) =>
             /\ i >= 2
             /\ calls[i - 1] = Lookups[1]
             /\ \A j \in 1..(i - 2) : ~IsLookup(calls[j])
             /\ HasFirst
             /\ calls[i].id = FirstSeen.ID
             /\ calls[i].op = "UnpauseContainer" => FirstSeen.State.Paused
             /\ calls[i].op = "StartContainer" =>
                   (FirstSeen.State.Status = "exited" /\ ~FirstSeen.State.Paused)

\* Paused at the first lookup and unpaused, then reported exited by a poll of
\* the loop: the loop went on to poll and no StartContainer was issued
C27_Witness ==
    /\ HasFirst
    /\ FirstSeen.State = StPaused
    /\ Count("UnpauseContainer") = 1
    /\ Len(Lookups) = 3
    /\ Lookups[2].state = StExited
    /\ Count("StartContainer") = 0

-----------------------------------------------------------------------------
(* C28 *)

\* every predicate of options.Reuse.ConfigChecks accepts the snapshot: the
\* default check by what it compares, a caller's check by its verdict
ChecksAccept(snapshot) ==
    \A i \in 1..Len(options.Reuse.ConfigChecks) :
        LET check == options.Reuse.ConfigChecks[i]
        IN  /\ check # "failing check"
            /\ check = "defaultContainerConfigCheck" =>
                  /\ snapshot.Image = options.Repository \o ":" \o options.Tag
                  /\ SeqRange(options.ExposedPorts) \subseteq snapshot.ExposedPorts
                  /\ \A port \in DOMAIN options.PortBindings :
                        /\ port \in DOMAIN snapshot.PortBindings
                        /\ SeqRange(options.PortBindings[port])
                              \subseteq SeqRange(snapshot.PortBindings[port])

\* C28: every attempt of reuseContainer performs exactly one lookup, and
\* reuseContainer returns success only if the snapshot of its final attempt's
\* lookup is Running, not Paused, exited or Restarting, and accepted by every
\* predicate of Reuse.ConfigChecks; the handle returned is that snapshot's
\* container.
C28_SuccessFromFinalSnapshot ==
    /\ Len(Lookups) = reuseTries + (IF path \in {"reuse", "RecreateOnErr"} /\ pc # "reuseContainer"
                                    THEN 1 ELSE 0)
    /\ ReuseReturnedOk =>
          /\ LastSeen # NilContainer
          /\ LastSeen.State.Running
          /\ ~LastSeen.State.Paused
          /\ ~LastSeen.State.Restarting
          /\ LastSeen.State.Status # "exited"
          /\ ChecksAccept(LastSeen)
          /\ container = LastSeen
          /\ ReturnedOk => result = LastSeen

\* success on the first poll of the loop: the container was paused at the
\* first lookup, and the caller's check added to the default one accepted the
\* running snapshot
C28_Witness ==
    /\ ReturnedOk
    /\ path = "reuse"
    /\ Len(options.Reuse.ConfigChecks) = 2
    /\ Len(Lookups) = 2
    /\ Lookups[1].state = StPaused
    /\ result = LastSeen
    /\ LastSeen.State = StRunning

-----------------------------------------------------------------------------
(* C29 *)

\* what the default check compares, on the existing container's configuration
ImageMatches == ExistingImage = options.Repository \o ":" \o options.Tag

ExposedMatch == SeqRange(options.ExposedPorts) \subseteq ExistingExposedPorts

BindingsMatch ==
    \A port \in DOMAIN options.PortBindings :
        /\ port \in DOMAIN ExistingPortBindings
        /\ SeqRange(options.PortBindings[port]) \subseteq SeqRange(ExistingPortBindings[port])

\* the predicate rejects the existing container
Rejects(check) ==
    \/ check = "failing check"
    \/ check = "defaultContainerConfigCheck" /\ ~(ImageMatches /\ ExposedMatch /\ BindingsMatch)

\* the position of the first predicate of the list that rejects, or the length
\* of the list when none does
FirstRejecting ==
    LET list == options.Reuse.ConfigChecks
    IN  IF \E i \in 1..Len(list) : Rejects(list[i])
        THEN CHOOSE i \in 1..Len(list) :
                 Rejects(list[i]) /\ \A j \in 1..(i - 1) : ~Rejects(list[j])
        ELSE Len(list)

\* the error reuseContainer returned
ReuseErr == IF path = "RecreateOnErr" THEN err ELSE runErr

\* reuseContainer returned the error of the default check
DefaultCheckFailed ==
    /\ path \in {"reuse", "RecreateOnErr"}
    /\ ErrorsIs(ReuseErr, ErrReuseContainerConflict)
    /\ Lookups[Len(Lookups)].checks # <<>>
    /\ Lookups[Len(Lookups)].checks[Len(Lookups[Len(Lookups)].checks)]
          = "defaultContainerConfigCheck"

Mentions(e, text) == text \in SeqRange(e.msg)

\* C29: on a snapshot whose state is ready, try() calls the predicates of
\* Reuse.ConfigChecks in list order, the default check first unless the caller
\* replaced the list, and stops at the first one that fails: the later ones are
\* not called. The default check compares the image, then the exposed ports,
\* then the port bindings, and its error names the first mismatch only.
C29_ChecksInOrderFirstFailureOnly ==
    /\ \A i \in 1..Len(Lookups) :
          Lookups[i].checks =
              IF Lookups[i].ret = "ok" /\ IsNil(checkContainerState(Container(
                     Lookups[i].id, Lookups[i].state, ExistingImage,
                     ExistingExposedPorts, ExistingPortBindings)))
              THEN SubSeq(options.Reuse.ConfigChecks, 1, FirstRejecting)
              ELSE <<>>
    /\ DefaultCheckFailed =>
          /\ Mentions(ReuseErr, "other image") = ~ImageMatches
          /\ Mentions(ReuseErr, "old container doesn't have exposed port")
                = (ImageMatches /\ ~ExposedMatch)
          /\ Mentions(ReuseErr, "failed to checkPortBindings")
                = (ImageMatches /\ ExposedMatch /\ ~BindingsMatch)

\* the request differs in image, exposed ports and port bindings, and the list
\* holds two more predicates after the default check: only the default check
\* was called and only the image is reported
C29_Witness ==
    /\ Returned
    /\ DefaultCheckFailed
    /\ ~ImageMatches /\ ~ExposedMatch /\ ~BindingsMatch
    /\ Len(options.Reuse.ConfigChecks) = 3
    /\ LET last == Lookups[Len(Lookups)]
       IN  last.checks = <<"defaultContainerConfigCheck">>
    /\ Mentions(runErr, "other image")
    /\ ~Mentions(runErr, "failed to checkPortBindings")

-----------------------------------------------------------------------------
(* C30 *)

IsCreate(c) == c.op = "RunWithOptions"

\* the create calls of the history
Creates == SelectSeq(calls, IsCreate)

\* the create inside recreateContainer answered that the name is taken again
SecondAlreadyExists ==
    /\ Len(Creates) = 2
    /\ Creates[2].ret = ErrContainerAlreadyExists

\* C30: with bounded reuse and retry backoff schedules every call of Run
\* returns, and it issues at most two create calls, at most one removal by name
\* and at most one corrective call; when the create inside recreateContainer
\* answers AlreadyExists again, Run returns an error with that call as its last:
\* it does not go back to the reuse or the recreate path.
C30_RunTerminatesWithBoundedCalls ==
    /\ <>Returned
    /\ [](/\ Len(Creates) <= 2
          /\ Count("RemoveContainerByName") <= 1
          /\ Count("UnpauseContainer") + Count("StartContainer") <= 1
          /\ SecondAlreadyExists =>
                /\ Returned
                /\ ~IsNil(runErr)
                /\ IsCreate(calls[Len(calls)])
                /\ path = "RemoveOnExists" => ErrorsIs(runErr, ErrContainerAlreadyExists))

\* Run removed the container it collided with, another client took the name
\* before the second create, and Run returned the second AlreadyExists
C30_Witness ==
    /\ Returned
    /\ SecondAlreadyExists
    /\ Creates[1].ret = ErrContainerAlreadyExists
    /\ Count("RemoveContainerByName") = 1
    /\ daemon.exists
    /\ daemon.Labels = {}

-----------------------------------------------------------------------------
(* C31 *)

\* backoff.Retry stopped on the context of the BackOffContext: Retry has
\* returned and the error backoff.Retry handed back is the context's
RetryStoppedOnContext ==
    /\ retry.pc = "done"
    /\ retry.attempts # <<>>
    /\ ErrorsIs(retry.err, ContextCanceled)

\* C31 (as claimed): when Retry stops because the context of its backoff was
\* cancelled or reached its deadline, the error it returns matches the
\* context's error and the error the last call of the operation returned, also
\* when the operation was called only once.
C31_ContextStopCarriesLastError ==
    RetryStoppedOnContext =>
        /\ ErrorsIs(retry.ret, ContextCanceled)
        /\ retry.attempts[Len(retry.attempts)].is \subseteq retry.ret.is

-----------------------------------------------------------------------------
(* C32 *)

\* C32: a call of the operation that returns nil is the last call Retry makes,
\* and Retry has returned nil with it, whatever the earlier calls returned.
C32_SuccessEndsRetryWithNil ==
    \A i \in 1..Len(retry.attempts) :
        IsNil(retry.attempts[i]) =>
            /\ i = Len(retry.attempts)
            /\ retry.pc = "done"
            /\ IsNil(retry.ret)

\* Retry returned nil after two failed calls with different errors and a third
\* call that succeeded
C32_Witness ==
    /\ retry.pc = "done"
    /\ Len(retry.attempts) = 3
    /\ ~IsNil(retry.attempts[1])
    /\ ~IsNil(retry.attempts[2])
    /\ retry.attempts[1] # retry.attempts[2]
    /\ IsNil(retry.attempts[3])
    /\ IsNil(retry.ret)

-----------------------------------------------------------------------------
(* C33 *)

\* the removal calls the goroutines of a pass have made
RemovalsOf(kind) == { r \in prune.removals : r.kind = kind }

\* the pass is past wg.Wait() of its loop, or never reached the loop
PastLoop(kind) == prune[kind].pc \in {"returned", "errors.Join", "done"}

\* the goroutines of the loop of a pass that are past mu.Lock()
InCritical(kind) ==
    { w \in DOMAIN prune[kind].workers : prune[kind].workers[w].pc = "errors.Join" }

\* one goroutine per listed resource, in the order of the listing, each making
\* at most one removal call for the resource of its own iteration; after the
\* loop's wg.Wait() every listed resource had exactly one removal attempted,
\* whether or not other removals failed
OneWorkerPerListed(kind) ==
    LET sweep == prune[kind]
    IN  /\ Len(sweep.workers) = sweep.next - 1
        /\ Len(sweep.workers) <= Len(sweep.listed)
        /\ \A w \in DOMAIN sweep.workers :
              /\ sweep.workers[w].ID = sweep.listed[w]
              /\ Cardinality({ r \in RemovalsOf(kind) : r.worker = w }) <= 1
        /\ \A r \in RemovalsOf(kind) :
              /\ r.worker \in DOMAIN sweep.workers
              /\ r.ID = sweep.listed[r.worker]
        /\ PastLoop(kind) =>
              /\ Len(sweep.workers) = Len(sweep.listed)
              /\ \A w \in DOMAIN sweep.workers :
                    /\ sweep.workers[w].pc = "done"
                    /\ Cardinality({ r \in RemovalsOf(kind) : r.ID = sweep.listed[w] }) = 1

\* Prune has returned only with both passes and all their goroutines finished
ReturnsAfterAllWorkers ==
    prune.pc = "done" =>
        \A kind \in Sweeps :
            /\ prune[kind].pc = "done"
            /\ \A w \in DOMAIN prune[kind].workers : prune[kind].workers[w].pc = "done"

\* at most one goroutine is between Lock and Unlock of a mutex, and it is the
\* holder
MutexHeld ==
    /\ \A kind \in Sweeps :
          /\ Cardinality(InCritical(kind)) <= 1
          /\ \A w \in InCritical(kind) : prune[kind].mu = w
    /\ \A kind \in Sweeps : prune[kind].pc = "errors.Join" => prune.mu = GoID(kind)
    /\ ~(prune.container.pc = "errors.Join" /\ prune.image.pc = "errors.Join")

\* a step that changes err of a pass while its loop runs, or err of Prune, is
\* the step of a goroutine that holds the mutex and joins its error
WritesUnderMutex ==
    /\ \A kind \in Sweeps :
          (prune[kind].pc = "loop" /\ prune'[kind].err # prune[kind].err) =>
              \E w \in InCritical(kind) :
                  /\ prune[kind].mu = w
                  /\ prune'[kind].workers[w].pc = "done"
    /\ prune'.err # prune.err =>
          \E kind \in Sweeps :
              /\ prune[kind].pc = "errors.Join"
              /\ prune.mu = GoID(kind)
              /\ prune'[kind].pc = "done"

\* C33: Prune starts exactly one removal goroutine per listed container and per
\* listed image, a failed removal does not keep any other removal from being
\* attempted, Prune returns only after both passes and all their goroutines
\* have finished, and every write to an error accumulator made while the
\* goroutines run is made holding the mutex.
C33_FanOutJoinsUnderMutex ==
    /\ [](\A kind \in Sweeps : OneWorkerPerListed(kind))
    /\ []ReturnsAfterAllWorkers
    /\ []MutexHeld
    /\ [][WritesUnderMutex]_vars

\* Prune returned after three container goroutines, the first two of which
\* failed and joined their errors, and two image goroutines
C33_Witness ==
    /\ prune.pc = "done"
    /\ Len(prune.container.workers) = 3
    /\ Len(prune.image.workers) = 2
    /\ [kind |-> "container", worker |-> 1, ID |-> prune.container.listed[1], ok |-> FALSE]
          \in prune.removals
    /\ [kind |-> "container", worker |-> 2, ID |-> prune.container.listed[2], ok |-> FALSE]
          \in prune.removals
    /\ [kind |-> "container", worker |-> 3, ID |-> prune.container.listed[3], ok |-> TRUE]
          \in prune.removals
    /\ Len(prune.container.err.msg) >= 4

-----------------------------------------------------------------------------
(* C34 *)

\* ListImages of the image pass answered
ImagesListed ==
    /\ prune.image.pc \in {"loop", "returned", "errors.Join", "done"}
    /\ ~ErrorsIs(prune.image.err, "ListImages error")

\* the images of the daemon that carry the label tcontainer=tcontainer
LabelledImages ==
    { r.ID : r \in { x \in docker.resources : x.kind = "image" /\ Labelled(x) } }

\* C34: whatever PruneOptions Prune was called with, the image pass does not
\* apply them: it never fails on an option, it lists exactly the images that
\* carry the label tcontainer=tcontainer, removals are issued for those only,
\* and every image without the label is still there.
C34_ImagePassIgnoresOptions ==
    /\ ~ErrorsIs(prune.image.err, "option error")
    /\ ImagesListed => SeqRange(prune.image.listed) = LabelledImages
    /\ \A r \in RemovalsOf("image") : r.ID \in LabelledImages
    /\ \A r \in docker.resources : (r.kind = "image" /\ ~Labelled(r)) => r.exists

\* Prune was called with an option that clears the image filter and has
\* returned: the labelled images were removed, the image without the label is
\* still there
C34_Witness ==
    /\ prune.pc = "done"
    /\ \E i \in 1..Len(prune.customOptions) :
          prune.customOptions[i] = "PruneImagesOption.Filters = nil"
    /\ Len(prune.image.listed) = 2
    /\ \A r \in RemovalsOf("image") : r.ok
    /\ Cardinality(RemovalsOf("image")) = 2
    /\ \E r \in docker.resources : r.kind = "image" /\ ~Labelled(r) /\ r.exists

-----------------------------------------------------------------------------
(* C35 *)

\* Run returned an error after reuseContainer had handed it the container
\* that was already there
FailedAfterReuse == FailedWithContainer /\ path = "reuse"

\* C35: when Run reused a container that was already there and then the expiry
\* registration or the readiness probe failed, Run created no container, and
\* its last call before returning the error is the one Purge of the container
\* the last lookup of the reuse flow returned: the reused container itself.
C35_ReusedContainerIsPurged ==
    FailedAfterReuse =>
        /\ \A i \in 1..Len(Creates) : Creates[i].ret = ErrContainerAlreadyExists
        /\ Lookups # <<>>
        /\ Lookups[Len(Lookups)].ret = "ok"
        /\ container.ID = Lookups[Len(Lookups)].id
        /\ Count("Purge") = 1
        /\ calls[Len(calls)].op = "Purge"
        /\ calls[Len(calls)].id = Lookups[Len(Lookups)].id
        /\ ExpireFailed \/ Issued("Operation")

\* the readiness probe failed on a reused container, and the container that
\* was there before Run is gone
C35_Witness ==
    /\ FailedAfterReuse
    /\ Issued("Operation")
    /\ ~ExpireFailed
    /\ container.ID = ExistingID
    /\ calls[Len(calls)].op = "Purge"
    /\ ~daemon.exists

-----------------------------------------------------------------------------
(* C36 *)

\* the corrective call of repairForReuse at position i of the history failed
CorrectiveFailedAt(i) == IsCorrective(calls[i]) /\ calls[i].ret = "error"

\* the error of the failed corrective call
CorrectiveErr(i) == calls[i].op \o " error"

\* C36: when the corrective call of repairForReuse (UnpauseContainer or
\* StartContainer) fails, reuseContainer has failed with it: the backoff loop
\* made no attempt and the first lookup stays the only one. The failure is
\* handled like any other failure of reuseContainer: with RecreateOnErr Run
\* goes on to recreateContainer (the next call is the removal by name) holding
\* the error of the corrective call as the reuse failure, without it Run has
\* returned that error, no container, and the corrective call is its last call.
C36_FailedCorrectiveEndsReuse ==
    \A i \in 1..Len(calls) :
        CorrectiveFailedAt(i) =>
            /\ reuseTries = 0
            /\ Len(Lookups) = 1
            /\ IF options.Reuse.RecreateOnErr
               THEN /\ path = "RecreateOnErr"
                    /\ ErrorsIs(err, CorrectiveErr(i))
                    /\ i < Len(calls) => calls[i + 1].op = "RemoveContainerByName"
               ELSE /\ Returned
                    /\ i = Len(calls)
                    /\ result = NilContainer
                    /\ ErrorsIs(runErr, CorrectiveErr(i))

\* UnpauseContainer failed on a paused container and Run returned its error
C36_Witness ==
    /\ Returned
    /\ ~options.Reuse.RecreateOnErr
    /\ Len(calls) = 3
    /\ calls[3].op = "UnpauseContainer"
    /\ CorrectiveFailedAt(3)
    /\ ErrorsIs(runErr, "UnpauseContainer error")
    /\ daemon.exists

-----------------------------------------------------------------------------
(* C37 *)

\* the first create call failed with an error that is not the name collision
FirstCreateFailedOtherwise ==
    /\ calls # <<>>
    /\ IsCreate(calls[1])
    /\ calls[1].ret \notin {"ok", ErrContainerAlreadyExists}

\* C37: when the first create call fails with an error that does not match
\* ErrContainerAlreadyExists, Run has returned that error and no container,
\* whatever Reuse and RemoveOnExists are set to, and the create call is its
\* only call: no lookup, no corrective call, no removal, no second create.
C37_OtherCreateFailureReturned ==
    FirstCreateFailedOtherwise =>
        /\ Returned
        /\ Len(calls) = 1
        /\ path = "failed"
        /\ result = NilContainer
        /\ ErrorsIs(runErr, calls[1].ret)
        /\ ~ErrorsIs(runErr, ErrContainerAlreadyExists)

\* the create failed otherwise while a container of the name was there and
\* Run was asked to reuse it, or to recreate on a failed reuse
C37_Witness ==
    /\ FirstCreateFailedOtherwise
    /\ Returned
    /\ daemon.exists
    /\ options.Reuse.Reuse
    /\ options.Reuse.RecreateOnErr

====
